---- MODULE Spec2Model ----
\* Missouri Ethics Commission report pipeline: report-version filtering, donor and
\* expense record extraction, record deduplication and report-type decoding.
\*
\* Text is modelled as a sequence of one-character strings, so that searching,
\* splitting, stripping and the regular expressions of the source are computed on
\* the characters as Python computes them.
EXTENDS Integers, Sequences, FiniteSets, TLC

VARIABLES
    pc,              \* position of the running function or batch loop
    amount_cell,     \* extract_amount_from_cell: the cell text
    amount_str,      \* extract_amount_from_cell: the returned amount (or None)
    amount_ok,       \* is_valid_amount(amount_str) as the callers evaluate it
    expenses,        \* deduplicate_expenses: the list passed in
    seen,            \* deduplicate_expenses: the keys met so far
    deduplicated,    \* deduplicate_expenses: the list being built
    dedup_i,         \* deduplicate_expenses: index of the next record of the loop
    pdf_files,       \* filter_latest_reports: the files passed in, with what
                     \*   extract_report_metadata returns for each
    reports_by_period, \* filter_latest_reports: <<key, reports>> in insertion order
    corrupted_files, \* filter_latest_reports: names of the unreadable files
    latest_reports,  \* filter_latest_reports: the list being returned
    skipped_files,   \* filter_latest_reports: names printed as "Skipping"
    filter_i,        \* filter_latest_reports: index of the running loop
    page_table,      \* a table page.extract_tables returned: rows of cells
    donors,          \* the donors one table adds in extract_donors_from_pdf
    page_expenses,   \* the records one table gives in extract_expenses_from_pdf
    is_contributions, \* extract_donors_from_pdf: is_contributions_page(text) of the page
    is_expense,      \* extract_expenses_from_pdf: the flag is_expense_page returned
    page_types,      \* extract_expenses_from_pdf: the list is_expense_page returned
    page_text,       \* the text page.extract_text() returned (None: no text)
    extracted_data,  \* extract_mo_ethics_report_data: the dict returned
    donor_metadata,  \* extract_report_metadata of donor_extractor: the dict returned
    expense_metadata, \* extract_report_metadata of expense_extractor: the dict returned
    batch_mode,      \* which batch function runs: "donors", "expenses" or "reports"
    batch_i,         \* the batch loop: index of the next file
    page_i,          \* extract_*_from_pdf: index of the next page of the open PDF
    pdf_records,     \* extract_*_from_pdf: the records collected from the open PDF
    all_records,     \* all_donors / all_expenses / all_data of the batch function
    error_log,       \* names of the files a batch function printed an error for
    Config,          \* config.py: the class attributes of Config
    set_search_calls, \* the number of Config.set_search calls made so far
    filename,        \* the name the downloader gave a report file (None: none yet)
    filename_info,   \* what extract_filename_info of the validator returned for it
    site_reports,    \* the MEC site: the report ids listed under each year
    site_page,       \* the MEC site: the page a search leads to, with its result links
    expected_files,  \* orchestrator main: the file names expected in the folder
    downloads_dir,   \* the names of the PDF files in the MECID folder
    attempt,         \* orchestrator main: the attempt of the download loop
    missing_files,   \* orchestrator main: expected_files - existing_files, as last computed
    returncode,      \* orchestrator main: the exit status of validate_reports.py
    prompts,         \* the questions main asked with input() and the answers, in order
    downloader_runs, \* the number of run_downloader calls made so far
    download_failed, \* some download_single_report call returned failure
    extractors_run,  \* the extractor scripts run_extractors started, in order
    exit_status      \* the exit status of orchestrator.py (NoStatus: still running)

amountVars == <<amount_cell, amount_str, amount_ok>>
dedupVars == <<expenses, seen, deduplicated, dedup_i>>
filterVars == <<pdf_files, reports_by_period, corrupted_files, latest_reports,
                skipped_files, filter_i>>
classVars == <<is_contributions, is_expense, page_types>>
tableVars == <<page_table, donors, page_expenses, classVars>>
metaVars == <<donor_metadata, expense_metadata>>
reportVars == <<page_text, extracted_data, metaVars>>
batchVars == <<batch_mode, batch_i, page_i, pdf_records, all_records, error_log>>
restVars == <<tableVars, reportVars, batchVars>>
configVars == <<Config, set_search_calls, filename, filename_info>>
orchVars == <<site_reports, site_page, expected_files, downloads_dir, attempt, missing_files,
              returncode, prompts, downloader_runs, download_failed, extractors_run, exit_status>>
toolVars == <<configVars, orchVars>>
vars == <<pc, amountVars, dedupVars, filterVars, restVars, toolVars>>

\* None: a one-element sequence that is no text (every character of a text is a
\* one-character string)
None == <<"None">>

\* ------------------------------------------------------------------ text

Min(S) == CHOOSE x \in S : \A y \in S : x <= y
Max(S) == CHOOSE x \in S : \A y \in S : x >= y

Digits == {"0", "1", "2", "3", "4", "5", "6", "7", "8", "9"}
LowerLetters == <<"a","b","c","d","e","f","g","h","i","j","k","l","m","n","o","p","q","r","s","t","u","v","w","x","y","z">>
UpperLetters == <<"A","B","C","D","E","F","G","H","I","J","K","L","M","N","O","P","Q","R","S","T","U","V","W","X","Y","Z">>

IsDigit(c) == c \in Digits
\* str.isspace / the regex class \s on the characters the model uses
IsSpace(c) == c \in {" ", "\n", "\t"}
IsAlpha(c) == \E i \in 1..26 : c = LowerLetters[i] \/ c = UpperLetters[i]

DigitVal(c) == CASE c = "0" -> 0 [] c = "1" -> 1 [] c = "2" -> 2 [] c = "3" -> 3
                 [] c = "4" -> 4 [] c = "5" -> 5 [] c = "6" -> 6 [] c = "7" -> 7
                 [] c = "8" -> 8 [] c = "9" -> 9

UpperChar(c) == IF \E i \in 1..26 : c = LowerLetters[i]
                THEN UpperLetters[CHOOSE i \in 1..26 : c = LowerLetters[i]]
                ELSE c
LowerChar(c) == IF \E i \in 1..26 : c = UpperLetters[i]
                THEN LowerLetters[CHOOSE i \in 1..26 : c = UpperLetters[i]]
                ELSE c
\* str.upper(), str.lower()
Upper(s) == [i \in 1..Len(s) |-> UpperChar(s[i])]
Lower(s) == [i \in 1..Len(s) |-> LowerChar(s[i])]

\* the character of s at position i, or "" past either end
At(s, i) == IF i >= 1 /\ i <= Len(s) THEN s[i] ELSE ""

\* s[i..] begins with p
MatchAt(s, p, i) == /\ i >= 1
                    /\ i + Len(p) - 1 <= Len(s)
                    /\ \A k \in 1..Len(p) : s[i + k - 1] = p[k]
\* the upper-case text p at i of s under re.IGNORECASE
MatchAtIgnoreCase(s, p, i) ==
    /\ i >= 1
    /\ i + Len(p) - 1 <= Len(s)
    /\ \A k \in 1..Len(p) : UpperChar(s[i + k - 1]) = p[k]
\* p in s
Contains(s, p) == \E i \in 1..(Len(s) - Len(p) + 1) : MatchAt(s, p, i)
\* s.find(p) as a 1-based position, 0 when p does not occur
Find(s, p) == IF Contains(s, p)
              THEN Min({i \in 1..(Len(s) - Len(p) + 1) : MatchAt(s, p, i)})
              ELSE 0
StartsWith(s, p) == MatchAt(s, p, 1)
StartsWithAny(s, ps) == \E p \in ps : StartsWith(s, p)

\* s[i:j] of Python with 1-based i and exclusive end j
Slice(s, i, j) == SubSeq(s, i, j - 1)

\* str.strip()
LStripPos(s) == IF \E i \in 1..Len(s) : ~IsSpace(s[i])
                THEN Min({i \in 1..Len(s) : ~IsSpace(s[i])}) ELSE Len(s) + 1
RStripPos(s) == IF \E i \in 1..Len(s) : ~IsSpace(s[i])
                THEN Max({i \in 1..Len(s) : ~IsSpace(s[i])}) ELSE 0
Strip(s) == SubSeq(s, LStripPos(s), RStripPos(s))

\* str.split(sep) for a one-character separator: empty pieces are kept
RECURSIVE SplitOn(_, _)
SplitOn(s, sep) ==
    IF \E i \in 1..Len(s) : s[i] = sep
    THEN LET i == Min({k \in 1..Len(s) : s[k] = sep})
         IN  <<SubSeq(s, 1, i - 1)>> \o SplitOn(SubSeq(s, i + 1, Len(s)), sep)
    ELSE <<s>>
SplitLines(s) == SplitOn(s, "\n")

\* str.split() with no argument: the whitespace-separated words
RECURSIVE SplitWords(_)
SplitWords(s) ==
    LET t == SubSeq(s, LStripPos(s), Len(s))
    IN  IF t = <<>> THEN <<>>
        ELSE IF \E i \in 1..Len(t) : IsSpace(t[i])
             THEN LET i == Min({k \in 1..Len(t) : IsSpace(t[k])})
                  IN  <<SubSeq(t, 1, i - 1)>> \o SplitWords(SubSeq(t, i, Len(t)))
             ELSE <<t>>

\* sep.join(parts)
RECURSIVE Join(_, _)
Join(parts, sep) ==
    IF parts = <<>> THEN <<>>
    ELSE IF Len(parts) = 1 THEN parts[1]
    ELSE parts[1] \o sep \o Join(Tail(parts), sep)

\* str.replace(old, new), old non-empty: every non-overlapping occurrence, left to right
RECURSIVE Replace(_, _, _)
Replace(s, old, new) ==
    LET i == Find(s, old)
    IN  IF i = 0 THEN s
        ELSE SubSeq(s, 1, i - 1) \o new \o Replace(SubSeq(s, i + Len(old), Len(s)), old, new)

\* the elements of a sequence that satisfy a test, in order
RECURSIVE SelectIdx(_, _)
SelectIdx(s, keep) ==
    IF s = <<>> THEN <<>>
    ELSE (IF 1 \in keep THEN <<s[1]>> ELSE <<>>)
         \o SelectIdx(Tail(s), {k - 1 : k \in keep \ {1}})

\* ----------------------------------------------- amounts (expense_extractor.py)

\* end (exclusive) of the run of digits of s that starts at i
RECURSIVE DigitRunEnd(_, _)
DigitRunEnd(s, i) == IF IsDigit(At(s, i)) THEN DigitRunEnd(s, i + 1) ELSE i

\* end of the whitespace run \s* that starts at i
RECURSIVE SkipSpaces(_, _)
SkipSpaces(s, i) == IF IsSpace(At(s, i)) THEN SkipSpaces(s, i + 1) ELSE i

\* one group ,\d{3} at i
CommaGroupAt(s, i) == /\ At(s, i) = ","
                      /\ IsDigit(At(s, i + 1)) /\ IsDigit(At(s, i + 2)) /\ IsDigit(At(s, i + 3))
\* end of the greedy (?:,\d{3})* that starts at i
RECURSIVE CommaGroupsEnd(_, _)
CommaGroupsEnd(s, i) == IF CommaGroupAt(s, i) THEN CommaGroupsEnd(s, i + 4) ELSE i
\* end of the greedy (?:\.\d{2})? that starts at i
CentsEnd(s, i) == IF At(s, i) = "." /\ IsDigit(At(s, i + 1)) /\ IsDigit(At(s, i + 2))
                  THEN i + 3 ELSE i

\* A match is <<start, end>> of group 1 (end exclusive); NoMatch when there is none.
NoMatch == <<0, 0>>

\* the leftmost position of s at which the matcher M matches, as re.search scans
FirstMatch(s, M(_, _)) ==
    IF \E i \in 1..Len(s) : M(s, i) # NoMatch
    THEN M(s, Min({i \in 1..Len(s) : M(s, i) # NoMatch}))
    ELSE NoMatch

\* (?:PAID|Paid)\s+(\d{1,3}(?:,\d{3})*(?:\.\d{2})?) with re.IGNORECASE, at i
PaidAmountAt(s, i) ==
    IF MatchAt(Upper(s), <<"P","A","I","D">>, i) /\ IsSpace(At(s, i + 4))
    THEN LET d == SkipSpaces(s, i + 4)
             r == DigitRunEnd(s, d)
             e == IF r - d > 3 THEN d + 3 ELSE r
         IN  IF r > d THEN <<d, CentsEnd(s, CommaGroupsEnd(s, e))>> ELSE NoMatch
    ELSE NoMatch

\* \$\s*(\d{1,3}(?:,\d{3})+(?:\.\d{2})?) at i
DollarCommaAt(s, i) ==
    IF At(s, i) = "$"
    THEN LET d == SkipSpaces(s, i + 1)
             r == DigitRunEnd(s, d)
         IN  IF r > d /\ r - d <= 3 /\ CommaGroupAt(s, r)
             THEN <<d, CentsEnd(s, CommaGroupsEnd(s, r))>> ELSE NoMatch
    ELSE NoMatch

\* \$\s*(\d{3,}(?:\.\d{2})?) at i
DollarLargeAt(s, i) ==
    IF At(s, i) = "$"
    THEN LET d == SkipSpaces(s, i + 1)
             r == DigitRunEnd(s, d)
         IN  IF r - d >= 3 THEN <<d, CentsEnd(s, r)>> ELSE NoMatch
    ELSE NoMatch

\* \$\s*(\d{1,2}\.\d{2}) at i
DollarSmallAt(s, i) ==
    IF At(s, i) = "$"
    THEN LET d == SkipSpaces(s, i + 1)
             r == DigitRunEnd(s, d)
         IN  IF r > d /\ r - d <= 2 /\ CentsEnd(s, r) > r
             THEN <<d, r + 3>> ELSE NoMatch
    ELSE NoMatch

\* (?<!\d)(\d{1,3}(?:,\d{3})+(?:\.\d{2})?)(?!\d) at i: the greedy match is given
\* back group by group until the character after it is no digit
RECURSIVE CommaBacktrack(_, _, _)
CommaBacktrack(s, r, g) ==
    IF g <= r THEN 0
    ELSE IF CentsEnd(s, g) > g /\ ~IsDigit(At(s, CentsEnd(s, g))) THEN CentsEnd(s, g)
    ELSE IF ~IsDigit(At(s, g)) THEN g
    ELSE CommaBacktrack(s, r, g - 4)
StandaloneCommaAt(s, i) ==
    IF IsDigit(At(s, i)) /\ ~IsDigit(At(s, i - 1))
    THEN LET r == DigitRunEnd(s, i)
             e == IF r - i <= 3 THEN CommaBacktrack(s, r, CommaGroupsEnd(s, r)) ELSE 0
         IN  IF e > 0 THEN <<i, e>> ELSE NoMatch
    ELSE NoMatch

\* (?<!\d)(\d{3,}(?:\.\d{2})?)(?!\d) at i
StandaloneLargeAt(s, i) ==
    IF IsDigit(At(s, i)) /\ ~IsDigit(At(s, i - 1))
    THEN LET r == DigitRunEnd(s, i)
             c == CentsEnd(s, r)
         IN  IF r - i >= 3
             THEN (IF c > r /\ ~IsDigit(At(s, c)) THEN <<i, c>> ELSE <<i, r>>)
             ELSE NoMatch
    ELSE NoMatch

\* (?<!\d)(\d{1,2}\.\d{2})(?!\d) at i
DecimalAt(s, i) ==
    IF IsDigit(At(s, i)) /\ ~IsDigit(At(s, i - 1))
    THEN LET r == DigitRunEnd(s, i)
         IN  IF r - i <= 2 /\ CentsEnd(s, r) > r /\ ~IsDigit(At(s, r + 3))
             THEN <<i, r + 3>> ELSE NoMatch
    ELSE NoMatch

\* match.group(1).replace(',', '')
GroupTextKeepCommas(s, m) == Slice(s, m[1], m[2])
GroupText(s, m) == Replace(Slice(s, m[1], m[2]), <<",">>, <<>>)

\* float(text) parses [+-]? digits [. digits?] | [+-]? . digits ; over the texts
\* the model feeds it (digits, sign, ".", "," and "x") any other text raises
\* ValueError. Exponents, inf, nan, "_" and surrounding blanks are not fed.
IsNumeral(t) ==
    LET b == IF At(t, 1) \in {"+", "-"} THEN 2 ELSE 1
        r == DigitRunEnd(t, b)
        f == IF At(t, r) = "." THEN DigitRunEnd(t, r + 1) ELSE r
    IN  /\ f = Len(t) + 1
        /\ (r > b \/ f > r + 1)
NumeralNegative(t) == At(t, 1) = "-"
NumeralInt(t) ==
    LET b == IF At(t, 1) \in {"+", "-"} THEN 2 ELSE 1
    IN  Slice(t, b, DigitRunEnd(t, b))
NumeralFrac(t) ==
    LET b == IF At(t, 1) \in {"+", "-"} THEN 2 ELSE 1
        r == DigitRunEnd(t, b)
    IN  IF At(t, r) = "." THEN Slice(t, r + 1, Len(t) + 1) ELSE <<>>
AllZero(ds) == \A i \in 1..Len(ds) : ds[i] = "0"

\* The decimal expansion of 0.5 - 2^-55, the midpoint between 0.5 and the double
\* below it: float() rounds a numeral to the nearest double (ties to even), so
\* float(t) >= 0.5 exactly when the value of t is at least this midpoint.
HalfMidpointDigits == <<"4","9","9","9","9","9","9","9","9","9","9","9","9","9","9","9","7","2","2","4","4","4","2","4","3","8","4","3","7","1","0","8","6","4","8","9","4","0","9","2","0","8","2","9","7","7","2","9","4","9","2","1","8","7","5">>
\* the digits ds of a fraction 0.ds are at least the digits ts of 0.ts
RECURSIVE FracAtLeast(_, _)
FracAtLeast(ds, ts) ==
    IF ts = <<>> THEN TRUE
    ELSE IF ds = <<>> THEN AllZero(ts)
    ELSE IF DigitVal(ds[1]) > DigitVal(ts[1]) THEN TRUE
    ELSE IF DigitVal(ds[1]) < DigitVal(ts[1]) THEN FALSE
    ELSE FracAtLeast(Tail(ds), Tail(ts))

\* float(t) > 0.50: the threshold taken strictly
FloatAboveHalf(t) ==
    /\ ~NumeralNegative(t)
    /\ \/ ~AllZero(NumeralInt(t))
       \/ /\ FracAtLeast(NumeralFrac(t), <<"5">>)
          /\ ~AllZero(Tail(NumeralFrac(t)))
FloatAtLeastHalf(t) ==
    /\ ~NumeralNegative(t)
    /\ \/ ~AllZero(NumeralInt(t))
       \/ FracAtLeast(NumeralFrac(t), HalfMidpointDigits)

\* is_valid_amount
is_valid_amount_strict(amount) ==
    IF amount = None \/ amount = <<>> THEN FALSE
    ELSE IF ~IsNumeral(amount) THEN FALSE
    ELSE FloatAboveHalf(amount)
is_valid_amount(amount) ==
    IF amount = None \/ amount = <<>> THEN FALSE
    ELSE IF ~IsNumeral(amount) THEN FALSE
    ELSE FloatAtLeastHalf(amount)

\* Strategy 1 of extract_amount_from_cell, on the whitespace-normalised cell
PaidStrategy(amount_cell_) ==
    LET cleaned_cell == Join(SplitWords(amount_cell_), <<" ">>)
        m == FirstMatch(cleaned_cell, PaidAmountAt)
    IN  IF m # NoMatch /\ FloatAtLeastHalf(GroupText(cleaned_cell, m))
        THEN GroupText(cleaned_cell, m) ELSE None

\* strategies 2 to 7 of extract_amount_from_cell, on the cell as it was given
LaterStrategies(cell) ==
    IF FirstMatch(cell, DollarCommaAt) # NoMatch
         THEN GroupText(cell, FirstMatch(cell, DollarCommaAt))
    ELSE IF FirstMatch(cell, DollarLargeAt) # NoMatch
         THEN GroupText(cell, FirstMatch(cell, DollarLargeAt))
    ELSE IF FirstMatch(cell, DollarSmallAt) # NoMatch
         THEN GroupText(cell, FirstMatch(cell, DollarSmallAt))
    ELSE IF FirstMatch(cell, StandaloneCommaAt) # NoMatch
         THEN GroupText(cell, FirstMatch(cell, StandaloneCommaAt))
    ELSE IF FirstMatch(cell, StandaloneLargeAt) # NoMatch
         THEN GroupText(cell, FirstMatch(cell, StandaloneLargeAt))
    ELSE IF FirstMatch(cell, DecimalAt) # NoMatch
         THEN GroupText(cell, FirstMatch(cell, DecimalAt))
    ELSE None
\* extract_amount_from_cell
extract_amount_from_cell(cell) ==
    IF cell = None \/ cell = <<>> THEN None
    ELSE IF PaidStrategy(cell) # None THEN PaidStrategy(cell)
    ELSE LaterStrategies(cell)

\* ------------------------------------------------ tables and cells (shared)

\* not x, for a text or None
Falsy(x) == x = None \/ x = <<>>
\* str(cell)
Str(cell) == IF cell = None THEN <<"N","o","n","e">> ELSE cell
\* str(cell or '')
StrOrEmpty(cell) == IF Falsy(cell) THEN <<>> ELSE cell
\* any(row)
AnyCell(row) == \E j \in 1..Len(row) : ~Falsy(row[j])
\* ' '.join([str(cell) or '' for cell in row]).upper()
RowText(row) == Upper(Join([j \in 1..Len(row) |-> Str(row[j])], <<" ">>))
\* str.isdigit()
IsDigitText(s) == s # <<>> /\ \A i \in 1..Len(s) : IsDigit(s[i])
\* f"{value}"
Fmt(x) == IF x = None THEN <<"N","o","n","e">> ELSE x

\* (\d{1,2}/\d{1,2}/\d{4}) at i
DateAt(s, i) ==
    LET m == IF IsDigit(At(s, i)) /\ IsDigit(At(s, i + 1)) /\ At(s, i + 2) = "/" THEN i + 2
             ELSE IF IsDigit(At(s, i)) /\ At(s, i + 1) = "/" THEN i + 1 ELSE 0
        d == IF m = 0 THEN 0
             ELSE IF IsDigit(At(s, m + 1)) /\ IsDigit(At(s, m + 2)) /\ At(s, m + 3) = "/" THEN m + 3
             ELSE IF IsDigit(At(s, m + 1)) /\ At(s, m + 2) = "/" THEN m + 2 ELSE 0
    IN  IF d # 0 /\ \A k \in 1..4 : IsDigit(At(s, d + k)) THEN <<i, d + 5>> ELSE NoMatch
\* re.search(r'(\d{1,2}/\d{1,2}/\d{4})', text): the date text, or None
SearchDate(text) ==
    LET m == FirstMatch(text, DateAt)
    IN  IF m = NoMatch THEN None ELSE Slice(text, m[1], m[2])

\* a table cell by its 0-based column index
Cell(row, col) == row[col + 1]
\* None where the code holds a column index or None
NoCol == -1
\* None where the code holds a dict or None
NoRecord == [none |-> TRUE]

\* ------------------------------------------------ donors (donor_extractor.py)

\* the two code points the source spells the checked-box glyph with are written
\* by name: a non-ASCII character is the one-element text of its code point
MojibakeCheck == <<"U+00E2", "U+02DC", "U+2018">>

DonorGarbagePatterns ==
    { <<"S","U","B","T","O","T","A","L">>, <<"T","O","T","A","L",":">>, <<"S","U","M"," ","C","O","L","U","M","N">>, <<"I","T","E","M","I","Z","E","D"," ","C","O","N","T","R","I","B","U","T","I","O","N","S">>,
      <<"N","O","N","-","I","T","E","M","I","Z","E","D">>, <<"F","U","N","D","-","R","A","I","S","E","R","S">>, <<"L","O","A","N","S">>, <<"F","O","R","M"," ","C","D">>,
      <<"M","I","S","S","O","U","R","I"," ","E","T","H","I","C","S">>, <<"S","U","P","P","L","E","M","E","N","T","A","L">>, <<"A","m","e","n","d","m","e","n","t"," ","D","e","t","a","i","l">>,
      <<"B","."," ","N","O","N","-","I","T","E","M","I","Z","E","D">>, <<"A","d","d","e","d","-","W","o","l","f">> }

\* \$?\s*(\d+(?:,\d{3})*(?:\.\d{2})?) searched in the amount cell: group 1
DonorAmountAt(s, i) ==
    IF IsDigit(At(s, i))
    THEN <<i, CentsEnd(s, CommaGroupsEnd(s, DigitRunEnd(s, i)))>> ELSE NoMatch

\* the contribution type read from the type cell
ContributionType(type_cell) ==
    LET up == Upper(type_cell)
    IN  IF Contains(up, <<"M","O","N","E","T","A","R","Y">>)
        THEN LET monetary_pos == Find(up, <<"M","O","N","E","T","A","R","Y">>)
                 inkind_pos == IF Contains(up, <<"I","N","-","K","I","N","D">>) THEN Find(up, <<"I","N","-","K","I","N","D">>)
                               ELSE Len(up) + 1
                 before_monetary == Slice(type_cell, 1, monetary_pos)
             IN  IF \/ Contains(before_monetary, <<"4">>)
                    \/ Contains(Upper(before_monetary), <<"X">>)
                    \/ Contains(before_monetary, MojibakeCheck)
                 THEN <<"M","o","n","e","t","a","r","y">>
                 ELSE IF inkind_pos < Len(up) + 1
                      THEN LET before_inkind == Slice(type_cell, monetary_pos, inkind_pos)
                           IN  IF \/ Contains(before_inkind, <<"4">>)
                                  \/ Contains(Upper(before_inkind), <<"X">>)
                               THEN <<"I","n","-","K","i","n","d">> ELSE None
                      ELSE None
        ELSE IF Contains(up, <<"I","N","-","K","I","N","D">>) \/ Contains(up, <<"I","N"," ","K","I","N","D">>) THEN <<"I","n","-","K","i","n","d">>
        ELSE None

\* parse_donor_entry: the donor of row start_row (0-based), or NoRecord
parse_donor_entry(table, start_row, date_col, amount_col, type_col, source_report, metadata) ==
    IF start_row >= Len(table) THEN NoRecord
    ELSE LET row == table[start_row + 1]
         IN  IF row = <<>> THEN NoRecord
             ELSE LET first_col == Strip(StrOrEmpty(row[1]))
                      date_cell == IF date_col # NoCol /\ date_col < Len(row)
                                   THEN Strip(StrOrEmpty(Cell(row, date_col))) ELSE <<>>
                      amount_cell_ == IF amount_col # NoCol /\ amount_col < Len(row)
                                      THEN Strip(StrOrEmpty(Cell(row, amount_col))) ELSE <<>>
                      type_cell == IF type_col # NoCol /\ type_col < Len(row)
                                   THEN Strip(StrOrEmpty(Cell(row, type_col))) ELSE <<>>
                      amount_match == FirstMatch(amount_cell_, DonorAmountAt)
                  IN  IF \E pattern \in DonorGarbagePatterns : Contains(first_col, pattern)
                      THEN NoRecord
                      ELSE IF IsDigitText(first_col) \/ Len(first_col) < 3 THEN NoRecord
                      ELSE [source_report |-> source_report,
                            committee_name |-> metadata.committee_name,
                            report_period |-> Fmt(metadata.period_start) \o <<" ","t","o"," ">>
                                                \o Fmt(metadata.period_end),
                            donor_name |-> first_col,
                            donor_address |-> None,
                            donor_city_state |-> None,
                            date_received |-> SearchDate(date_cell),
                            amount |-> IF amount_match = NoMatch THEN None
                                       ELSE GroupText(amount_cell_, amount_match),
                            contribution_type |-> ContributionType(type_cell)]

\* the column a header row gives a role: the last cell (0-based) that passes
\* the test, NoCol when no cell does
LastCol(row, Test(_)) ==
    IF \E j \in 1..Len(row) : Test(row[j])
    THEN Max({j \in 1..Len(row) : Test(row[j])}) - 1 ELSE NoCol
FirstCol(row, Test(_)) ==
    IF \E j \in 1..Len(row) : Test(row[j])
    THEN Min({j \in 1..Len(row) : Test(row[j])}) - 1 ELSE NoCol
\* the first of the leading rows (at most `limit` of them) that passes the test, 0-based
HeaderRow(table, limit, Test(_)) ==
    LET n == IF Len(table) < limit THEN Len(table) ELSE limit
    IN  IF \E i \in 1..n : table[i] # <<>> /\ Test(table[i])
        THEN Min({i \in 1..n : table[i] # <<>> /\ Test(table[i])}) - 1 ELSE NoCol

DonorHeaderTest(row) == Contains(RowText(row), <<"D","A","T","E">>) /\ Contains(RowText(row), <<"R","E","C","E","I","V","E","D">>)
DonorDateCell(cell) == ~Falsy(cell) /\ Contains(Upper(cell), <<"D","A","T","E">>)
DonorAmountCell(cell) == ~Falsy(cell) /\ Contains(Upper(cell), <<"A","M","O","U","N","T">>)
\* the type column recognised by IN-KIND alone
DonorTypeCellInKindOnly(cell) == ~Falsy(cell) /\ Contains(Upper(cell), <<"I","N","-","K","I","N","D">>)
DonorTypeCell(cell) ==
    ~Falsy(cell) /\ (Contains(Upper(cell), <<"M","O","N","E","T","A","R","Y">>) \/ Contains(Upper(cell), <<"I","N","-","K","I","N","D">>))

\* the header scan of parse_contribution_table: table[:5]
DonorHeaderLimit == 5
DonorColumns(table) ==
    LET header_row == HeaderRow(table, DonorHeaderLimit, DonorHeaderTest)
    IN  IF header_row = NoCol
        THEN [header_row |-> NoCol, date_col |-> NoCol, amount_col |-> NoCol, type_col |-> NoCol]
        ELSE [header_row |-> header_row,
              date_col |-> LastCol(table[header_row + 1], DonorDateCell),
              amount_col |-> LastCol(table[header_row + 1], DonorAmountCell),
              type_col |-> LastCol(table[header_row + 1], DonorTypeCell)]

\* the rows of a table from start_row (0-based) on, each mapped by Entry to a
\* record or NoRecord, the NoRecord results dropped
DropNoRecords(all) == SelectIdx(all, {k \in 1..Len(all) : all[k] # NoRecord})
CollectRows(table, start_row, Entry(_)) ==
    DropNoRecords([k \in 1..Len(table) |-> IF k - 1 >= start_row THEN Entry(k - 1) ELSE NoRecord])

\* the row loop of parse_contribution_table, the header scan having given c
DonorRows(table, c, source_report, metadata) ==
    LET Entry(i) ==
            IF table[i + 1] = <<>> \/ ~AnyCell(table[i + 1]) THEN NoRecord
            ELSE IF StartsWithAny(Strip(StrOrEmpty(table[i + 1][1])), {<<"A","D","D","R","E","S","S",":">>, <<"N","A","M","E",":">>})
                 THEN parse_donor_entry(table, i, c.date_col, c.amount_col, c.type_col,
                                        source_report, metadata)
                 ELSE NoRecord
    IN  CollectRows(table, IF c.header_row # NoCol THEN c.header_row + 1 ELSE 0, Entry)
\* parse_contribution_table
parse_contribution_table(table, source_report, metadata) ==
    IF Len(table) < 2 THEN <<>>
    ELSE DonorRows(table, DonorColumns(table), source_report, metadata)

\* CITY\s*/?\s*STATE:\s* with re.IGNORECASE at i: the end of the match, 0 if none
CityStateLabelEnd(s, i) ==
    IF MatchAt(Upper(s), <<"C","I","T","Y">>, i)
    THEN LET a == SkipSpaces(s, i + 4)
             b == IF At(s, a) = "/" THEN a + 1 ELSE a
             c == SkipSpaces(s, b)
         IN  IF MatchAt(Upper(s), <<"S","T","A","T","E",":">>, c) THEN SkipSpaces(s, c + 6) ELSE 0
    ELSE 0
\* re.sub(r'CITY\s*/?\s*STATE:\s*', '', s, flags=re.IGNORECASE)
RECURSIVE RemoveCityStateLabels(_)
RemoveCityStateLabels(s) ==
    IF \E i \in 1..Len(s) : CityStateLabelEnd(s, i) # 0
    THEN LET i == Min({k \in 1..Len(s) : CityStateLabelEnd(s, k) # 0})
         IN  SubSeq(s, 1, i - 1)
               \o RemoveCityStateLabels(SubSeq(s, CityStateLabelEnd(s, i), Len(s)))
    ELSE s

\* re.search(r'\s+\d{5}(-\d{4})?$', employer)
LooksLikeZip(s) ==
    LET n == Len(s)
        Zip5(e) == /\ e - 5 >= 1
                   /\ \A k \in 1..5 : IsDigit(At(s, e - 5 + k))
                   /\ IsSpace(At(s, e - 5))
        Plus4 == /\ At(s, n - 4) = "-"
                 /\ \A k \in 1..4 : IsDigit(At(s, n - 4 + k))
    IN  Zip5(n) \/ (Plus4 /\ Zip5(n - 5))

LabelsCEC == {<<"C","I","T","Y">>, <<"E","M","P","L","O","Y","E","R",":">>, <<"C","O","M","M","I","T","T","E","E",":">>}
LabelsCECAN == {<<"C","I","T","Y">>, <<"E","M","P","L","O","Y","E","R",":">>, <<"C","O","M","M","I","T","T","E","E",":">>, <<"A","D","D","R","E","S","S",":">>, <<"N","A","M","E",":">>}
LabelsACEC == {<<"A","D","D","R","E","S","S",":">>, <<"C","I","T","Y">>, <<"E","M","P","L","O","Y","E","R",":">>, <<"C","O","M","M","I","T","T","E","E",":">>}
LabelsECAN == {<<"E","M","P","L","O","Y","E","R",":">>, <<"C","O","M","M","I","T","T","E","E",":">>, <<"A","D","D","R","E","S","S",":">>, <<"N","A","M","E",":">>}
LabelsCACN == {<<"C","O","M","M","I","T","T","E","E",":">>, <<"A","D","D","R","E","S","S",":">>, <<"C","I","T","Y">>, <<"N","A","M","E",":">>}
LabelsEC == {<<"E","M","P","L","O","Y","E","R",":">>, <<"C","O","M","M","I","T","T","E","E",":">>}

\* the CITY / STATE branch: the text left of the line goes to the address, or
\* else to city_state
CityLineText(st, city_line_text) ==
    IF city_line_text # <<>> /\ ~StartsWithAny(city_line_text, LabelsEC)
    THEN (IF Falsy(st.address) THEN [st EXCEPT !.address = city_line_text]
          ELSE IF Falsy(st.city_state) THEN [st EXCEPT !.city_state = city_line_text]
          ELSE st)
    ELSE st
\* and the next line goes to city_state, or else to the address
AfterCityLine(st1, has1, next_line) ==
    IF has1 /\ ~StartsWithAny(next_line, LabelsECAN)
    THEN (IF ~Falsy(st1.address) /\ Falsy(st1.city_state)
          THEN [st1 EXCEPT !.city_state = next_line]
          ELSE IF Falsy(st1.address) THEN [st1 EXCEPT !.address = next_line]
          ELSE st1)
    ELSE st1

\* One iteration of the while loop of clean_donor_record on lines[i] (1-based):
\* the fields after it, and the number of lines consumed.
CleanLine(lines, i, st) ==
    LET line == lines[i]
        has1 == i + 1 <= Len(lines)
        has2 == i + 2 <= Len(lines)
        next_line == IF has1 THEN lines[i + 1] ELSE <<>>
        same == [st |-> st, step |-> 1]
    IN  IF line = <<"N","A","M","E",":">>
           \/ (StartsWith(line, <<"N","A","M","E",":">>) /\ Strip(Replace(line, <<"N","A","M","E",":">>, <<>>)) = <<>>)
        THEN IF ~has1 THEN same
             ELSE IF StartsWith(next_line, <<"A","D","D","R","E","S","S",":">>)
                  THEN LET name_text == Strip(Replace(next_line, <<"A","D","D","R","E","S","S",":">>, <<>>))
                       IN  IF name_text # <<>> /\ ~StartsWithAny(name_text, LabelsCEC)
                           THEN [st |-> [st EXCEPT
                                    !.name = name_text,
                                    !.address = IF has2 /\ ~StartsWithAny(lines[i + 2], LabelsCECAN)
                                                THEN lines[i + 2] ELSE @],
                                 step |-> 2]
                           ELSE same
                  ELSE IF ~StartsWithAny(next_line, LabelsACEC)
                       THEN [st |-> [st EXCEPT !.name = next_line], step |-> 1]
                       ELSE same
        ELSE IF StartsWith(line, <<"A","D","D","R","E","S","S",":">>) /\ Falsy(st.name)
        THEN LET name_text == Strip(Replace(line, <<"A","D","D","R","E","S","S",":">>, <<>>))
             IN  IF name_text # <<>> /\ ~StartsWithAny(name_text, LabelsCEC)
                 THEN [st |-> [st EXCEPT
                          !.name = name_text,
                          !.address = IF has1 /\ ~StartsWithAny(next_line, LabelsCECAN)
                                      THEN next_line ELSE @],
                       step |-> 1]
                 ELSE same
        ELSE IF StartsWith(line, <<"A","D","D","R","E","S","S",":">>) /\ ~Falsy(st.name) /\ Falsy(st.address)
        THEN IF /\ Strip(Replace(line, <<"A","D","D","R","E","S","S",":">>, <<>>)) = <<>>
                /\ has1 /\ ~StartsWithAny(next_line, LabelsCECAN)
             THEN [st |-> [st EXCEPT !.address = next_line], step |-> 1]
             ELSE same
        ELSE IF Contains(line, <<"C","I","T","Y">>) /\ Contains(line, <<"S","T","A","T","E">>)
        THEN [st |-> AfterCityLine(CityLineText(st, Strip(RemoveCityStateLabels(line))),
                                   has1, next_line),
              step |-> 1]
        ELSE IF StartsWith(line, <<"E","M","P","L","O","Y","E","R",":">>)
        THEN LET employer_text == Strip(Replace(line, <<"E","M","P","L","O","Y","E","R",":">>, <<>>))
             IN  IF employer_text # <<>>
                 THEN [st |-> [st EXCEPT !.employer = employer_text], step |-> 1]
                 ELSE IF has1 /\ ~StartsWithAny(next_line, LabelsCACN)
                      THEN [st |-> [st EXCEPT !.employer = next_line], step |-> 1]
                      ELSE same
        ELSE same

RECURSIVE CleanLoop(_, _, _)
CleanFrom(lines, i, r) == CleanLoop(lines, i + r.step, r.st)
CleanLoop(lines, i, st) ==
    IF i > Len(lines) THEN st ELSE CleanFrom(lines, i, CleanLine(lines, i, st))

\* [line.strip() for line in text.split('\n') if line.strip()]
StrippedLines(text) ==
    LET ls == SplitLines(text)
    IN  SelectIdx([k \in 1..Len(ls) |-> Strip(ls[k])],
                  {k \in 1..Len(ls) : Strip(ls[k]) # <<>>})

UnresolvedNames == {<<"A","D","D","R","E","S","S",":">>, <<"C","I","T","Y">>, <<"S","T","A","T","E">>, <<"E","M","P","L","O","Y","E","R",":">>, <<"C","O","M","M","I","T","T","E","E",":">>, <<"N","A","M","E",":">>}

\* the last check of clean_donor_record: a name that still holds labels
RejectLabels(donor) ==
    IF /\ ~Falsy(donor.donor_name)
       /\ Contains(donor.donor_name, <<"A","D","D","R","E","S","S",":">>)
       /\ Contains(donor.donor_name, <<"C","I","T","Y">>)
    THEN NoRecord ELSE donor
\* the fields the while loop resolved, written into the donor
ResolvedDonor(donor, st) ==
    IF Falsy(st.name) \/ st.name \in UnresolvedNames THEN NoRecord
    ELSE RejectLabels([donor EXCEPT
                         !.donor_name = st.name,
                         !.donor_address = st.address,
                         !.donor_city_state =
                             IF Falsy(st.city_state) /\ ~Falsy(st.employer)
                                /\ LooksLikeZip(st.employer)
                             THEN st.employer ELSE st.city_state])
\* clean_donor_record: the cleaned donor, or NoRecord
clean_donor_record(donor) ==
    IF ~Falsy(donor.donor_name) /\ Contains(donor.donor_name, <<"\n">>)
    THEN ResolvedDonor(donor,
                       CleanLoop(StrippedLines(donor.donor_name), 1,
                                 [name |-> None, address |-> None, city_state |-> None,
                                  employer |-> None]))
    ELSE RejectLabels(donor)

\* the donors one table adds to the result of extract_donors_from_pdf:
\* parse_contribution_table, then clean_donor_record on each, NoRecord dropped
RECURSIVE CleanAll(_)
CleanAll(page_donors) ==
    IF page_donors = <<>> THEN <<>>
    ELSE DropNoRecords(<<clean_donor_record(Head(page_donors))>>) \o CleanAll(Tail(page_donors))
DonorsOfTable(table, source_report, metadata) ==
    CleanAll(parse_contribution_table(table, source_report, metadata))

\* ------------------------------------------------ expenses (expense_extractor.py)

\* re.sub(r'^LABEL\s*', '', text, flags=re.IGNORECASE)
StripLabel(text, label) ==
    IF StartsWith(Upper(text), label)
    THEN SubSeq(text, SkipSpaces(text, Len(label) + 1), Len(text)) ELSE text
\* re.sub(r'^CITY\s*/?\s*STATE:\s*', '', text, flags=re.IGNORECASE)
StripCityStateLabel(text) ==
    IF CityStateLabelEnd(text, 1) # 0
    THEN SubSeq(text, CityStateLabelEnd(text, 1), Len(text)) ELSE text

clean_field_text_keep_labels(text) == IF text = <<>> THEN text ELSE Strip(text)
clean_field_text(text) ==
    IF text = <<>> THEN text
    ELSE Strip(StripCityStateLabel(StripLabel(StripLabel(text, <<"N","A","M","E",":">>), <<"A","D","D","R","E","S","S",":">>)))

\* re.match(r'^\d{1,2}\.\s', text)
NumberedItem(text) ==
    \/ IsDigit(At(text, 1)) /\ At(text, 2) = "." /\ IsSpace(At(text, 3))
    \/ IsDigit(At(text, 1)) /\ IsDigit(At(text, 2)) /\ At(text, 3) = "." /\ IsSpace(At(text, 4))

FormPhrases ==
    { <<"A","M","O","U","N","T"," ","O","F"," ","L","I","N","E">>, <<"I","F"," ","C","O","M","M","I","T","T","E","E"," ","M","A","D","E">>, <<"F","U","N","D","S"," ","U","S","E","D"," ","F","O","R"," ","P","A","Y","I","N","G">>, <<"S","U","B","T","O","T","A","L">>,
      <<"T","O","T","A","L",":">>, <<"S","U","M"," ","C","O","L","U","M","N">>, <<"C","A","R","R","Y"," ","T","O"," ","I","T","E","M">>, <<"N","A","M","E"," ","A","N","D"," ","A","D","D","R","E","S","S"," ","O","F"," ","R","E","C","I","P","I","E","N","T">>,
      <<"C","."," ","C","O","N","T","R","I","B","U","T","I","O","N","S"," ","M","A","D","E">>, <<"C","O","N","T","R","I","B","U","T","I","O","N","S"," ","M","A","D","E"," ","(","R","E","G","A","R","D","L","E","S","S">>, <<"2","0","."," ","N","A","M","E"," ","A","N","D"," ","A","D","D","R","E","S","S">>,
      <<"I","T","E","M","I","Z","E","D"," ","E","X","P","E","N","D","I","T","U","R","E","S">>, <<"A","N","D"," ","A","L","L"," ","P","A","Y","M","E","N","T","S"," ","T","O"," ","C","A","M","P","A","I","G","N">>,
      <<"B","."," ","I","T","E","M","I","Z","E","D"," ","E","X","P","E","N","D","I","T","U","R","E","S">> }

is_form_summary_row(text) ==
    IF text = <<>> THEN FALSE
    ELSE NumberedItem(text) \/ \E phrase \in FormPhrases : Contains(Upper(text), phrase)

\* amount_str if amount_str and is_valid_amount(amount_str), else None
ValidOrNone(amount_str_) ==
    IF ~Falsy(amount_str_) /\ is_valid_amount(amount_str_) THEN amount_str_ ELSE None
\* the same for the amount cell of a row
ValidAmountOf(row, amount_col) ==
    ValidOrNone(extract_amount_from_cell(Strip(StrOrEmpty(Cell(row, amount_col)))))
HasValidAmount(row, amount_col) ==
    amount_col # NoCol /\ amount_col < Len(row) /\ ValidAmountOf(row, amount_col) # None

\* [clean_field_text(line.strip()) for line in lines], then the empty ones dropped
CleanEach(raw) == [k \in 1..Len(raw) |-> clean_field_text(Strip(raw[k]))]
NonEmpty(cleaned) == SelectIdx(cleaned, {k \in 1..Len(cleaned) : cleaned[k] # <<>>})
FirstThree(lines) ==
    [payee_name |-> IF Len(lines) > 0 THEN lines[1] ELSE None,
     payee_address |-> IF Len(lines) > 1 THEN lines[2] ELSE None,
     payee_city_state |-> IF Len(lines) > 2 THEN lines[3] ELSE None]
\* the name, address and city/state read from the first cell of a row
PayeeFields(first_col) ==
    IF Contains(first_col, <<"\n">>)
    THEN FirstThree(NonEmpty(CleanEach(SplitLines(first_col))))
    ELSE [payee_name |-> clean_field_text(first_col), payee_address |-> None, payee_city_state |-> None]

\* the date cell of a row read with the date pattern
DateOfRow(row, date_col) ==
    IF date_col # NoCol /\ date_col < Len(row)
    THEN SearchDate(Strip(StrOrEmpty(Cell(row, date_col)))) ELSE None

\* re.sub(r'\$\s*$', '', purpose_cell) on a stripped cell
DropTrailingDollar(s) ==
    IF s # <<>> /\ s[Len(s)] = "$" THEN SubSeq(s, 1, Len(s) - 1) ELSE s

CheckGlyphs == {"U+2714", "U+2713"}

PaymentStatus(amount_cell_) ==
    IF \/ \E g \in CheckGlyphs : Contains(amount_cell_, <<g>>)
       \/ Contains(Upper(amount_cell_), <<"P","A","I","D">>)
    THEN <<"P","a","i","d">>
    ELSE IF Contains(Upper(amount_cell_), <<"I","N","C","U","R","R","E","D">>) THEN <<"I","n","c","u","r","r","e","d">> ELSE None

\* the stripped text of the cell of a column, None when the row has no such cell
CellOrNone(row, col) ==
    IF col # NoCol /\ col < Len(row) THEN Strip(StrOrEmpty(Cell(row, col))) ELSE None
\* the record of a detailed row, its cells read; NoRecord without payee or amount
DetailedRecord(payee, date1, purpose_cell, amount_cell_, amount, source_report, metadata) ==
    IF Falsy(payee.payee_name) \/ Falsy(amount) THEN NoRecord
    ELSE [source_report |-> source_report,
          committee_name |-> metadata.committee_name,
          report_period |-> Fmt(metadata.period_start) \o <<" ","t","o"," ">> \o Fmt(metadata.period_end),
          payee_name |-> payee.payee_name,
          payee_address |-> payee.payee_address,
          payee_city_state |-> payee.payee_city_state,
          date |-> IF purpose_cell # None /\ SearchDate(purpose_cell) # None /\ Falsy(date1)
                   THEN SearchDate(purpose_cell) ELSE date1,
          purpose |-> IF /\ purpose_cell # None
                         /\ ~(SearchDate(purpose_cell) # None /\ Falsy(date1))
                         /\ DropTrailingDollar(purpose_cell) # <<>>
                      THEN DropTrailingDollar(purpose_cell) ELSE None,
          amount |-> amount,
          payment_status |-> IF amount_cell_ # None THEN PaymentStatus(amount_cell_) ELSE None,
          expense_type |-> <<"E","x","p","e","n","s","e">>]
DetailedEntryOf(row, date_col, purpose_col, amount_col, source_report, metadata) ==
    DetailedRecord(PayeeFields(Strip(StrOrEmpty(row[1]))),
                   DateOfRow(row, date_col),
                   CellOrNone(row, purpose_col),
                   CellOrNone(row, amount_col),
                   IF amount_col # NoCol /\ amount_col < Len(row)
                   THEN ValidAmountOf(row, amount_col) ELSE None,
                   source_report, metadata)
\* parse_detailed_expense_entry
parse_detailed_expense_entry(table, start_row, date_col, purpose_col, amount_col, source_report, metadata) ==
    IF start_row >= Len(table) THEN NoRecord
    ELSE IF table[start_row + 1] = <<>> THEN NoRecord
    ELSE DetailedEntryOf(table[start_row + 1], date_col, purpose_col, amount_col,
                         source_report, metadata)

\* the record of a contribution row, its cells read; NoRecord without payee or amount
ContributionRecord(payee, date, amount, source_report, metadata) ==
    IF Falsy(payee.payee_name) \/ Falsy(amount) THEN NoRecord
    ELSE [source_report |-> source_report,
          committee_name |-> metadata.committee_name,
          report_period |-> Fmt(metadata.period_start) \o <<" ","t","o"," ">> \o Fmt(metadata.period_end),
          payee_name |-> payee.payee_name,
          payee_address |-> payee.payee_address,
          payee_city_state |-> payee.payee_city_state,
          date |-> date,
          purpose |-> <<"C","o","n","t","r","i","b","u","t","i","o","n"," ","t","o"," ","C","o","m","m","i","t","t","e","e">>,
          amount |-> amount,
          payment_status |-> None,
          expense_type |-> <<"C","o","n","t","r","i","b","u","t","i","o","n">>]
\* parse_contribution_entry
parse_contribution_entry(table, start_row, date_col, amount_col, source_report, metadata) ==
    IF start_row >= Len(table) THEN NoRecord
    ELSE IF table[start_row + 1] = <<>> THEN NoRecord
    ELSE ContributionRecord(PayeeFields(Strip(StrOrEmpty(table[start_row + 1][1]))),
                            DateOfRow(table[start_row + 1], date_col),
                            IF amount_col # NoCol /\ amount_col < Len(table[start_row + 1])
                            THEN ValidAmountOf(table[start_row + 1], amount_col) ELSE None,
                            source_report, metadata)

\* str(cell or '').upper() of a header cell
HeaderCellText(cell) == Upper(StrOrEmpty(cell))
ExpenseHeaderLimit == 10
DetailedHeaderTest(row) == Contains(RowText(row), <<"D","A","T","E">>) /\ Contains(RowText(row), <<"P","U","R","P","O","S","E">>)
DetailedDateCell(cell) ==
    Contains(HeaderCellText(cell), <<"D","A","T","E">>) /\ ~Contains(HeaderCellText(cell), <<"R","E","C","E","I","V","E","D">>)
DetailedPurposeCell(cell) == Contains(HeaderCellText(cell), <<"P","U","R","P","O","S","E">>)
DetailedAmountCell(cell) ==
    \/ Contains(HeaderCellText(cell), <<"A","M","O","U","N","T"," ","T","H","I","S"," ","P","E","R","I","O","D">>)
    \/ Contains(HeaderCellText(cell), <<"A","M","O","U","N","T">>) /\ Contains(HeaderCellText(cell), <<"P","E","R","I","O","D">>)
DetailedColumnsAt(table, header_row) ==
    IF header_row = NoCol
    THEN [header_row |-> NoCol, date_col |-> NoCol, purpose_col |-> NoCol, amount_col |-> NoCol]
    ELSE [header_row |-> header_row,
          date_col |-> LastCol(table[header_row + 1], DetailedDateCell),
          purpose_col |-> LastCol(table[header_row + 1], DetailedPurposeCell),
          amount_col |-> LastCol(table[header_row + 1], DetailedAmountCell)]
DetailedColumns(table) ==
    DetailedColumnsAt(table, HeaderRow(table, ExpenseHeaderLimit, DetailedHeaderTest))

\* the row filter shared by parse_detailed_expense_table and parse_contributions_table
ExpenseRowPasses(row, amount_col) ==
    /\ row # <<>> /\ AnyCell(row)
    /\ ~is_form_summary_row(Strip(StrOrEmpty(row[1])))
    /\ Len(Strip(StrOrEmpty(row[1]))) > 3
    /\ HasValidAmount(row, amount_col)

\* parse_detailed_expense_table
DetailedRows(table, c, source_report, metadata) ==
    LET Entry(i) ==
            IF ExpenseRowPasses(table[i + 1], c.amount_col)
            THEN parse_detailed_expense_entry(table, i, c.date_col, c.purpose_col,
                                              c.amount_col, source_report, metadata)
            ELSE NoRecord
    IN  CollectRows(table, IF c.header_row # NoCol THEN c.header_row + 1 ELSE 0, Entry)
parse_detailed_expense_table(table, source_report, metadata) ==
    IF Len(table) < 2 THEN <<>>
    ELSE DetailedRows(table, DetailedColumns(table), source_report, metadata)

ContribHeaderTest(row) ==
    /\ Contains(RowText(row), <<"D","A","T","E">>)
    /\ Contains(RowText(row), <<"A","M","O","U","N","T">>) \/ Contains(RowText(row), <<"C","A","N","D","I","D","A","T","E"," ","O","R"," ","C","O","M","M","I","T","T","E","E">>)
ContribDateCell(cell) == Contains(HeaderCellText(cell), <<"D","A","T","E">>)
ContribAmountCell(cell) == Contains(HeaderCellText(cell), <<"A","M","O","U","N","T">>)
ContribColumnsAt(table, header_row) ==
    IF header_row = NoCol
    THEN [header_row |-> NoCol, date_col |-> NoCol, amount_col |-> NoCol]
    ELSE [header_row |-> header_row,
          date_col |-> LastCol(table[header_row + 1], ContribDateCell),
          amount_col |-> LastCol(table[header_row + 1], ContribAmountCell)]
ContribColumns(table) ==
    ContribColumnsAt(table, HeaderRow(table, ExpenseHeaderLimit, ContribHeaderTest))

\* parse_contributions_table
ContribRows(table, c, source_report, metadata) ==
    LET Entry(i) ==
            IF ExpenseRowPasses(table[i + 1], c.amount_col)
            THEN parse_contribution_entry(table, i, c.date_col, c.amount_col,
                                          source_report, metadata)
            ELSE NoRecord
    IN  CollectRows(table, IF c.header_row # NoCol THEN c.header_row + 1 ELSE 0, Entry)
parse_contributions_table(table, source_report, metadata) ==
    IF Len(table) < 2 THEN <<>>
    ELSE ContribRows(table, ContribColumns(table), source_report, metadata)

InvalidCategoryPatterns ==
    { <<"N","A","M","E",":">>, <<"A","D","D","R","E","S","S",":">>, <<"C","I","T","Y">>, <<"S","T","A","T","E",":">>, <<"S","U","B","T","O","T","A","L">>, <<"T","O","T","A","L">>, <<"S","U","M"," ","C","O","L","U","M","N">>,
      <<"C","A","R","R","Y"," ","T","O">>, <<"A","M","O","U","N","T"," ","O","F"," ","L","I","N","E">>, <<"E","X","P","E","N","D","I","T","U","R","E","S"," ","A","N","D"," ","C","O","N","T","R","I","B","U","T","I","O","N","S">>,
      <<"C","A","T","E","G","O","R","Y"," ","O","F"," ","E","X","P","E","N","D","I","T","U","R","E">>, <<"F","U","N","D","S"," ","U","S","E","D"," ","F","O","R"," ","P","A","Y","I","N","G">> }
AllowedItemWords == { <<"b","a","t","c","h">>, <<"c","a","r","d">>, <<"f","e","e">>, <<"s","e","r","v","i","c","e">> }

is_valid_category_name(category) ==
    IF Len(category) < 2 THEN FALSE
    ELSE IF NumberedItem(category)
            /\ ~\E word \in AllowedItemWords : Contains(Lower(category), word)
    THEN FALSE
    ELSE IF \E pattern \in InvalidCategoryPatterns : Contains(Upper(category), pattern)
    THEN FALSE
    ELSE \E i \in 1..Len(category) : IsAlpha(category[i])

\* float(amount) == 0.0 for a text extract_amount_from_cell returned
IsZeroAmount(amount) == \A i \in 1..Len(amount) : amount[i] \in {"0", "."}

\* the amount loop of parse_category_expense_table over row[1:]: the first
\* extracted amount that is valid, else whatever the last non-empty cell gave
RECURSIVE CategoryAmountFrom(_, _, _)
CategoryFound(row, j, found) ==
    IF ~Falsy(found) /\ is_valid_amount(found) THEN found
    ELSE CategoryAmountFrom(row, j + 1, found)
CategoryAmountFrom(row, j, amount) ==
    IF j > Len(row) THEN amount
    ELSE IF Strip(StrOrEmpty(row[j])) = <<>> THEN CategoryAmountFrom(row, j + 1, amount)
    ELSE CategoryFound(row, j, extract_amount_from_cell(Strip(StrOrEmpty(row[j]))))
CategoryAmount(row) == CategoryAmountFrom(row, 2, None)

\* the row after the first one whose text has CATEGORY OF EXPENDITURE, else 0
CategoryStartRow(table) ==
    LET Hit(i) == table[i] # <<>> /\ Contains(RowText(table[i]), <<"C","A","T","E","G","O","R","Y"," ","O","F"," ","E","X","P","E","N","D","I","T","U","R","E">>)
    IN  IF \E i \in 1..Len(table) : Hit(i)
        THEN Min({i \in 1..Len(table) : Hit(i)}) ELSE 0

\* the record of a category row, its name and amount read
CategoryEntry(category, amount, source_report, metadata) ==
    IF ~is_valid_category_name(category) THEN NoRecord
    ELSE IF Falsy(amount) \/ IsZeroAmount(amount) THEN NoRecord
    ELSE [source_report |-> source_report,
          committee_name |-> metadata.committee_name,
          report_period |-> Fmt(metadata.period_start) \o <<" ","t","o"," ">> \o Fmt(metadata.period_end),
          payee_name |-> None,
          payee_address |-> None,
          payee_city_state |-> None,
          date |-> metadata.date_filed,
          purpose |-> category,
          amount |-> amount,
          payment_status |-> <<"C","a","t","e","g","o","r","y">>,
          expense_type |-> <<"E","x","p","e","n","s","e">>]
\* parse_category_expense_table
parse_category_expense_table(table, source_report, metadata) ==
    IF Len(table) < 2 THEN <<>>
    ELSE LET Entry(i) ==
                 IF table[i + 1] = <<>> \/ ~AnyCell(table[i + 1]) THEN NoRecord
                 ELSE CategoryEntry(Strip(StrOrEmpty(table[i + 1][1])),
                                    CategoryAmount(table[i + 1]), source_report, metadata)
         IN  CollectRows(table, CategoryStartRow(table), Entry)

\* contributions listed whatever detailed matched
is_expense_page_both(text) ==
    LET text_upper == Upper(text)
        detailed == \/ /\ Contains(text_upper, <<"I","T","E","M","I","Z","E","D"," ","E","X","P","E","N","D","I","T","U","R","E","S">>)
                       /\ Contains(text_upper, <<"A","L","L"," ","O","V","E","R"," ","$","1","0","0">>)
                    \/ Contains(text_upper, <<"I","T","E","M","I","Z","E","D"," ","E","X","P","E","N","D","I","T","U","R","E","S"," ","O","V","E","R"," ","$","1","0","0">>)
        contributions == /\ Contains(text_upper, <<"C","O","N","T","R","I","B","U","T","I","O","N","S"," ","M","A","D","E">>)
                         /\ Contains(text_upper, <<"C","A","N","D","I","D","A","T","E"," ","O","R"," ","C","O","M","M","I","T","T","E","E">>)
        category == \/ Contains(text_upper, <<"E","X","P","E","N","D","I","T","U","R","E","S"," ","O","F"," ","$","1","0","0"," ","O","R"," ","L","E","S","S"," ","B","Y"," ","C","A","T","E","G","O","R","Y">>)
                    \/ /\ Contains(text_upper, <<"E","X","P","E","N","D","I","T","U","R","E","S"," ","A","N","D"," ","C","O","N","T","R","I","B","U","T","I","O","N","S"," ","M","A","D","E">>)
                       /\ Contains(text_upper, <<"C","A","T","E","G","O","R","Y"," ","O","F"," ","E","X","P","E","N","D","I","T","U","R","E">>)
    IN  (IF detailed THEN <<"detailed">> ELSE <<>>)
          \o (IF contributions THEN <<"contributions">> ELSE <<>>)
          \o (IF category THEN <<"category">> ELSE <<>>)
\* is_expense_page: the page types, in the order the code lists them
is_expense_page(text) ==
    LET text_upper == Upper(text)
        detailed == \/ /\ Contains(text_upper, <<"I","T","E","M","I","Z","E","D"," ","E","X","P","E","N","D","I","T","U","R","E","S">>)
                       /\ Contains(text_upper, <<"A","L","L"," ","O","V","E","R"," ","$","1","0","0">>)
                    \/ Contains(text_upper, <<"I","T","E","M","I","Z","E","D"," ","E","X","P","E","N","D","I","T","U","R","E","S"," ","O","V","E","R"," ","$","1","0","0">>)
        contributions == /\ Contains(text_upper, <<"C","O","N","T","R","I","B","U","T","I","O","N","S"," ","M","A","D","E">>)
                         /\ Contains(text_upper, <<"C","A","N","D","I","D","A","T","E"," ","O","R"," ","C","O","M","M","I","T","T","E","E">>)
                         /\ ~detailed
        category == \/ Contains(text_upper, <<"E","X","P","E","N","D","I","T","U","R","E","S"," ","O","F"," ","$","1","0","0"," ","O","R"," ","L","E","S","S"," ","B","Y"," ","C","A","T","E","G","O","R","Y">>)
                    \/ /\ Contains(text_upper, <<"E","X","P","E","N","D","I","T","U","R","E","S"," ","A","N","D"," ","C","O","N","T","R","I","B","U","T","I","O","N","S"," ","M","A","D","E">>)
                       /\ Contains(text_upper, <<"C","A","T","E","G","O","R","Y"," ","O","F"," ","E","X","P","E","N","D","I","T","U","R","E">>)
    IN  (IF detailed THEN <<"detailed">> ELSE <<>>)
          \o (IF contributions THEN <<"contributions">> ELSE <<>>)
          \o (IF category THEN <<"category">> ELSE <<>>)

\* the flag is_expense_page returns with the list
ExpensePageFlag(types) == types # <<>>

\* RECEIVED not asked for
is_contributions_page_any_heading(text) ==
    LET text_upper == Upper(text)
    IN  /\ Contains(text_upper, <<"C","O","N","T","R","I","B","U","T","I","O","N","S">>)
        /\ Contains(text_upper, <<"I","T","E","M","I","Z","E","D">>) \/ Contains(text_upper, <<"S","U","P","P","L","E","M","E","N","T","A","L">>)
\* is_contributions_page
is_contributions_page(text) ==
    LET text_upper == Upper(text)
    IN  /\ Contains(text_upper, <<"C","O","N","T","R","I","B","U","T","I","O","N","S">>)
        /\ Contains(text_upper, <<"I","T","E","M","I","Z","E","D">>) \/ Contains(text_upper, <<"S","U","P","P","L","E","M","E","N","T","A","L">>)
        /\ Contains(text_upper, <<"R","E","C","E","I","V","E","D">>)

\* the parser extract_expenses_from_pdf applies to a table for a page type
ParseAs(page_type, table, source_report, metadata) ==
    CASE page_type = "detailed" -> parse_detailed_expense_table(table, source_report, metadata)
      [] page_type = "contributions" -> parse_contributions_table(table, source_report, metadata)
      [] page_type = "category" -> parse_category_expense_table(table, source_report, metadata)
      [] OTHER -> <<>>

\* ------------------------------------------------ SpecAmount: amount cells

\* The pieces an amount cell of the form is made of: "$" amounts, a bare "$",
\* the words Paid and Incurred, amounts with and without cents, and a Paid
\* keyword with the amount that follows it.
CellTokens == { <<"$","1",",","2","3","4",".","5","6">>, <<"P","a","i","d"," ">>, <<"1","6","1",".","8","0">>, <<" ","I","n","c","u","r","r","e","d">>, <<"$","5",",","0","0","0",".","0","0"," ">>,
                <<"0",".","3","0"," ">>, <<"$">>, <<"1","2">>, <<"I","n","c","u","r","r","e","d"," ">>,
                <<"P","a","i","d"," ","0",".","3","0"," ">>, <<"P","a","i","d"," ","1","6","1",".","8","0"," ">>, <<"1","2","3","4",".","5","6"," ">> }
MaxCellTokens == 3

RECURSIVE TokenStrings(_, _)
TokenStrings(tokens, n) ==
    IF n = 0 THEN {<<>>}
    ELSE LET shorter == TokenStrings(tokens, n - 1)
         IN  shorter \cup {s \o t : s \in shorter, t \in tokens}
AmountCells == TokenStrings(CellTokens, MaxCellTokens)

\* the class attributes of Config as the class statement sets them (config.py)
DefaultConfig ==
    [SEARCH_TYPE |-> "committee",
     COMMITTEE_NAME |-> <<"F","r","a","n","c","i","s"," ","H","o","w","e","l","l"," ","F","a","m","i","l","i","e","s">>,
     COMMITTEE_MECID |-> <<"C","2","1","1","6">>,
     CANDIDATE_NAME |-> None]
ConfigIdle ==
    /\ Config = DefaultConfig /\ set_search_calls = 0
    /\ filename = None /\ filename_info = NoRecord
\* no exit status yet: the process has not ended (or was not started)
NoStatus == -1
\* no page: the site was not searched
NoPage == [kind |-> "none", links |-> <<>>]
OrchIdle ==
    /\ site_reports = <<>> /\ site_page = NoPage /\ expected_files = {} /\ downloads_dir = {}
    /\ attempt = 0 /\ missing_files = {} /\ returncode = NoStatus /\ prompts = <<>>
    /\ downloader_runs = 0 /\ download_failed = FALSE /\ extractors_run = <<>>
    /\ exit_status = NoStatus
ToolIdle == ConfigIdle /\ OrchIdle

AmountIdle == amount_cell = None /\ amount_str = None /\ amount_ok = FALSE
DedupIdle == expenses = <<>> /\ seen = {} /\ deduplicated = <<>> /\ dedup_i = 0

ClassIdle == is_contributions = FALSE /\ is_expense = FALSE /\ page_types = <<>>
TableIdle == page_table = <<>> /\ donors = <<>> /\ page_expenses = <<>> /\ ClassIdle
MetaIdle == donor_metadata = NoRecord /\ expense_metadata = NoRecord
ReportIdle == page_text = None /\ extracted_data = NoRecord /\ MetaIdle
BatchIdle ==
    /\ batch_mode = "none" /\ batch_i = 0 /\ page_i = 0
    /\ pdf_records = <<>> /\ all_records = <<>> /\ error_log = <<>>
RestIdle == TableIdle /\ ReportIdle /\ BatchIdle
FilterIdle ==
    /\ pdf_files = <<>> /\ reports_by_period = <<>> /\ corrupted_files = <<>>
    /\ latest_reports = <<>> /\ skipped_files = <<>> /\ filter_i = 0

AmountInit ==
    /\ ToolIdle /\ DedupIdle /\ FilterIdle /\ RestIdle
    /\ pc = "amount_cell"
    /\ amount_cell \in AmountCells
    /\ amount_str = None
    /\ amount_ok = FALSE

\* amount_str = extract_amount_from_cell(amount_cell)
ExtractAmount ==
    /\ pc = "amount_cell"
    /\ amount_str' = extract_amount_from_cell(amount_cell)
    /\ pc' = "amount_str"
    /\ UNCHANGED <<amount_cell, amount_ok, toolVars, dedupVars, filterVars, restVars>>

\* if amount_str and is_valid_amount(amount_str)
CheckAmount ==
    /\ pc = "amount_str"
    /\ amount_ok' = is_valid_amount(amount_str)
    /\ pc' = "amount_done"
    /\ UNCHANGED <<amount_cell, amount_str, toolVars, dedupVars, filterVars, restVars>>

AmountNext == ExtractAmount \/ CheckAmount
SpecAmount == AmountInit /\ [][AmountNext]_vars

HasDigit(s) == \E i \in 1..Len(s) : IsDigit(s[i])
Extracted == pc \in {"amount_str", "amount_done"}
Target1234 == <<"$","1",",","2","3","4",".","5","6">>
\* a "$"-prefixed comma-grouped number starts before the first "$1,234.56"
EarlierDollarComma(cell) ==
    \E i \in 1..(Find(cell, Target1234) - 1) : DollarCommaAt(cell, i) # NoMatch

\* C6 as stated: every cell containing "$1,234.56" yields "1234.56".
C6_AnyCellWithTarget ==
    (Extracted /\ Contains(amount_cell, Target1234)) => amount_str = <<"1","2","3","4",".","5","6">>

\* the text without its thousands separators
WithoutCommas(s) == SelectIdx(s, {i \in 1..Len(s) : s[i] # ","})
\* The number that follows the first Paid keyword (any letter case) that
\* white space and a digit follow, read on the cell with its white space
\* collapsed as up to three digits, any groups ",ddd" and an optional ".dd",
\* without its thousands separators; None when no Paid keyword has a number.
FirstPaidNumber(cell) ==
    LET collapsed == Join(SplitWords(cell), <<" ">>)
        m == FirstMatch(collapsed, PaidAmountAt)
    IN  IF m = NoMatch THEN None ELSE WithoutCommas(Slice(collapsed, m[1], m[2]))
\* a number of that form is worth 0.50 or more
AtLeastHalf(number) ==
    LET parts == SplitOn(number, ".")
    IN  \/ \E i \in 1..Len(parts[1]) : parts[1][i] # "0"
        \/ Len(parts) = 2 /\ DigitVal(parts[2][1]) >= 5
\* the first "$"-prefixed comma-grouped number of the cell, without its separators
FirstDollarComma(cell) ==
    LET m == FirstMatch(cell, DollarCommaAt)
    IN  WithoutCommas(Slice(cell, m[1], m[2]))
\* what a cell containing "$1,234.56" yields, paid being its first Paid number
AmountWithTarget(cell, paid) ==
    IF paid # None /\ AtLeastHalf(paid) THEN paid
    ELSE IF EarlierDollarComma(cell) THEN FirstDollarComma(cell)
    ELSE <<"1","2","3","4",".","5","6">>

\* C6, amended: for a cell containing "$1,234.56" the amount returned is the
\* number after the first Paid keyword that a number follows when that number
\* is at least 0.50 ("Paid 161.80 $1,234.56" gives "161.80", "Paid 1234.56
\* $1,234.56" gives "123"); else the first "$"-prefixed comma-grouped number
\* when one comes before "$1,234.56" ("$5,000.00 $1,234.56" gives "5000.00");
\* else "1234.56" ("Paid 0.30 Paid 161.80 $1,234.56" gives "1234.56").
\* "Paid 161.80 Incurred" yields "161.80"; a cell with no digit yields None; no
\* returned amount contains a thousands separator.
C6_ExtractAmount ==
    Extracted =>
      /\ Contains(amount_cell, Target1234) =>
            amount_str = AmountWithTarget(amount_cell, FirstPaidNumber(amount_cell))
      /\ amount_cell = <<"P","a","i","d"," ","1","6","1",".","8","0"," ","$","1",",","2","3","4",".","5","6">> => amount_str = <<"1","6","1",".","8","0">>
      /\ amount_cell = <<"P","a","i","d"," ","1","2","3","4",".","5","6"," ","$","1",",","2","3","4",".","5","6">> => amount_str = <<"1","2","3">>
      /\ amount_cell = <<"$","5",",","0","0","0",".","0","0"," ","$","1",",","2","3","4",".","5","6">> => amount_str = <<"5","0","0","0",".","0","0">>
      /\ amount_cell = <<"P","a","i","d"," ","0",".","3","0"," ","P","a","i","d"," ","1","6","1",".","8","0"," ","$","1",",","2","3","4",".","5","6">> => amount_str = <<"1","2","3","4",".","5","6">>
      /\ amount_cell = <<"P","a","i","d"," ","1","6","1",".","8","0"," ","I","n","c","u","r","r","e","d">> => amount_str = <<"1","6","1",".","8","0">>
      /\ ~HasDigit(amount_cell) => amount_str = None
      /\ amount_str # None => ~Contains(amount_str, <<",">>)
\* the first Paid number is below 0.50 and a later Paid number is not: the
\* cascade goes on to the "$" amount
C6_Witness ==
    /\ Extracted
    /\ amount_cell = <<"P","a","i","d"," ","0",".","3","0"," ","P","a","i","d"," ","1","6","1",".","8","0"," ","$","1",",","2","3","4",".","5","6">>
    /\ amount_str = <<"1","2","3","4",".","5","6">>

\* the number strategy (a) takes, with Incurred for the keyword
IncurredAmountAt(s, i) ==
    IF MatchAt(Upper(s), <<"I","N","C","U","R","R","E","D">>, i) /\ IsSpace(At(s, i + 8))
    THEN LET d == SkipSpaces(s, i + 8)
             r == DigitRunEnd(s, d)
             e == IF r - d > 3 THEN d + 3 ELSE r
         IN  IF r > d THEN <<d, CentsEnd(s, CommaGroupsEnd(s, e))>> ELSE NoMatch
    ELSE NoMatch
KeywordAmountAt(s, i) ==
    IF PaidAmountAt(s, i) # NoMatch THEN PaidAmountAt(s, i) ELSE IncurredAmountAt(s, i)
\* strategy (a) as C18 has it: the number after the first Paid or Incurred
\* keyword that a number follows, when it is at least 0.50
KeywordStrategy(cell) ==
    LET cleaned_cell == Join(SplitWords(cell), <<" ">>)
        m == FirstMatch(cleaned_cell, KeywordAmountAt)
    IN  IF m # NoMatch /\ FloatAtLeastHalf(GroupText(cleaned_cell, m))
        THEN GroupText(cleaned_cell, m) ELSE None

\* C18 as stated: the amount returned is the number after the Paid or the
\* Incurred keyword when that number is at least 0.50, before any "$"-based
\* strategy is tried, and else the result of the first of the strategies (b)
\* to (g) that succeeds.
C18_KeywordStrategyFirst ==
    (Extracted /\ amount_cell # <<>>) =>
      amount_str = IF KeywordStrategy(amount_cell) # None
                   THEN KeywordStrategy(amount_cell)
                   ELSE LaterStrategies(amount_cell)

\* ------------------------------------------- SpecValid: is_valid_amount alone

\* Amount strings: every string of up to MaxAmountLen characters of AmountChars,
\* and the numerals 0.49..9 and 0.50..0 with up to MaxDecimals decimal places.
AmountChars == {"0", "4", "5", "9", ".", ",", "-", "x"}
MaxAmountLen == 3
MaxDecimals == 17

RECURSIVE CharStrings(_, _)
CharStrings(chars, n) ==
    IF n = 0 THEN {<<>>}
    ELSE LET shorter == CharStrings(chars, n - 1)
         IN  shorter \cup {s \o <<c>> : s \in shorter, c \in chars}
Repeat(c, n) == [i \in 1..n |-> c]
AmountStrings ==
    CharStrings(AmountChars, MaxAmountLen)
      \cup {<<"0",".","4">> \o Repeat("9", n) : n \in 0..(MaxDecimals - 1)}
      \cup {<<"0",".","5">> \o Repeat("0", n) : n \in 0..(MaxDecimals - 1)}

ValidInit ==
    /\ ToolIdle /\ DedupIdle /\ FilterIdle /\ RestIdle
    /\ pc = "amount_str"
    /\ amount_cell = None
    /\ amount_str \in AmountStrings
    /\ amount_ok = FALSE
SpecValid == ValidInit /\ [][CheckAmount]_vars

\* the exact decimal value of the numeral t is below 0.50
ValueBelowHalf(t) ==
    \/ NumeralNegative(t)
    \/ AllZero(NumeralInt(t)) /\ ~FracAtLeast(NumeralFrac(t), <<"5">>)

\* C7 as stated: every amount string whose value is below 0.50 is rejected.
C7_BelowHalfRejected ==
    (pc = "amount_done" /\ IsNumeral(amount_str) /\ ValueBelowHalf(amount_str))
      => ~amount_ok

\* C7, amended: is_valid_amount rejects the empty string, every non-numeric
\* string and every numeral below 0.50 that has at most 16 decimal places, and
\* accepts "0.50" and every numeral of value 0.50 or more.
C7_IsValidAmount ==
    pc = "amount_done" =>
      /\ (amount_str = <<>> \/ ~IsNumeral(amount_str)) => ~amount_ok
      /\ (/\ IsNumeral(amount_str)
          /\ ValueBelowHalf(amount_str)
          /\ Len(NumeralFrac(amount_str)) <= 16) => ~amount_ok
      /\ (IsNumeral(amount_str) /\ ~ValueBelowHalf(amount_str)) => amount_ok
      /\ amount_str = <<"0",".","5","0">> => amount_ok
C7_Witness ==
    /\ pc = "amount_done"
    /\ amount_str = <<"0",".","5","0">>
    /\ amount_ok

\* ------------------------------- SpecDedup: deduplicate_expenses (one call)

\* dict.get(key, '') of a record
Get(rec, field) == IF field \in DOMAIN rec THEN rec[field] ELSE <<>>

\* the key of one expense (the body of the loop, before the membership test)
DedupKeyWithSource(expense) ==
    IF Get(expense, "payment_status") = <<"C","a","t","e","g","o","r","y">>
    THEN <<Get(expense, "purpose"), Get(expense, "amount"), Get(expense, "date"),
           <<"C","a","t","e","g","o","r","y">>, Get(expense, "source_report")>>
    ELSE <<Get(expense, "payee_name"), Get(expense, "amount"), Get(expense, "date"),
           Get(expense, "expense_type"), Get(expense, "source_report")>>
DedupKey(expense) ==
    IF Get(expense, "payment_status") = <<"C","a","t","e","g","o","r","y">>
    THEN <<Get(expense, "purpose"), Get(expense, "amount"), Get(expense, "date"),
           <<"C","a","t","e","g","o","r","y">>>>
    ELSE <<Get(expense, "payee_name"), Get(expense, "amount"), Get(expense, "date"),
           Get(expense, "expense_type")>>

\* deduplicated.append(expense)
KeepAtFront(list, expense) == <<expense>> \o list
Keep(list, expense) == Append(list, expense)

\* deduplicate_expenses as a function of its argument
RECURSIVE DedupFrom(_, _, _)
DedupFrom(rest, seen_, out) ==
    IF rest = <<>> THEN out
    ELSE IF DedupKey(Head(rest)) \notin seen_
         THEN DedupFrom(Tail(rest), seen_ \cup {DedupKey(Head(rest))}, Keep(out, Head(rest)))
         ELSE DedupFrom(Tail(rest), seen_, out)
deduplicate_expenses(list) == DedupFrom(list, {}, <<>>)

Itemized(payee, amount, date, etype, status, src) ==
    [source_report |-> src, payee_name |-> payee, purpose |-> <<"P","r","i","n","t","i","n","g">>,
     date |-> date, amount |-> amount, payment_status |-> status, expense_type |-> etype]
CategoryRecord(purpose, amount, date, src) ==
    [source_report |-> src, payee_name |-> None, purpose |-> purpose,
     date |-> date, amount |-> amount, payment_status |-> <<"C","a","t","e","g","o","r","y">>,
     expense_type |-> <<"E","x","p","e","n","s","e">>]
\* records of the shapes the three table parsers build
DedupRecords ==
    { Itemized(<<"A","c","m","e">>, <<"1","0",".","0","0">>, <<"1","/","1","5","/","2","0","2","4">>, <<"E","x","p","e","n","s","e">>, <<"P","a","i","d">>, <<"r","1",".","p","d","f">>),
      Itemized(<<"A","c","m","e">>, <<"1","0",".","0","0">>, <<"1","/","1","5","/","2","0","2","4">>, <<"E","x","p","e","n","s","e">>, <<"P","a","i","d">>, <<"r","2",".","p","d","f">>),
      Itemized(<<"A","c","m","e">>, <<"2","0",".","0","0">>, <<"1","/","1","5","/","2","0","2","4">>, <<"E","x","p","e","n","s","e">>, <<"P","a","i","d">>, <<"r","1",".","p","d","f">>),
      Itemized(<<"A","c","m","e">>, <<"1","0",".","0","0">>, <<"2","/","1","/","2","0","2","4">>, <<"E","x","p","e","n","s","e">>, <<"P","a","i","d">>, <<"r","1",".","p","d","f">>),
      Itemized(<<"A","c","m","e">>, <<"1","0",".","0","0">>, <<"1","/","1","5","/","2","0","2","4">>, <<"C","o","n","t","r","i","b","u","t","i","o","n">>, None, <<"r","1",".","p","d","f">>),
      Itemized(<<"A","c","m","e">>, <<"1","0",".","0","0">>, <<"1","/","1","5","/","2","0","2","4">>, <<"E","x","p","e","n","s","e">>, <<"I","n","c","u","r","r","e","d">>, <<"r","1",".","p","d","f">>),
      Itemized(<<"P","o","s","t","a","g","e">>, <<"1","0",".","0","0">>, <<"1","/","1","5","/","2","0","2","4">>, <<"E","x","p","e","n","s","e">>, None, <<"r","1",".","p","d","f">>),
      CategoryRecord(<<"P","o","s","t","a","g","e">>, <<"1","0",".","0","0">>, <<"1","/","1","5","/","2","0","2","4">>, <<"r","1",".","p","d","f">>),
      CategoryRecord(<<"P","o","s","t","a","g","e">>, <<"1","0",".","0","0">>, <<"1","/","1","5","/","2","0","2","4">>, <<"r","2",".","p","d","f">>),
      CategoryRecord(<<"P","o","s","t","a","g","e">>, <<"2","0",".","0","0">>, <<"1","/","1","5","/","2","0","2","4">>, <<"r","1",".","p","d","f">>),
      CategoryRecord(<<"P","o","s","t","a","g","e">>, <<"1","0",".","0","0">>, None, <<"r","1",".","p","d","f">>),
      CategoryRecord(<<"A","c","m","e">>, <<"1","0",".","0","0">>, <<"1","/","1","5","/","2","0","2","4">>, <<"r","1",".","p","d","f">>) }
MaxExpenses == 3

RECURSIVE SeqsUpTo(_, _)
SeqsUpTo(S, n) ==
    IF n = 0 THEN {<<>>}
    ELSE LET shorter == SeqsUpTo(S, n - 1)
         IN  shorter \cup {Append(q, x) : q \in shorter, x \in S}

DedupInit ==
    /\ ToolIdle /\ AmountIdle /\ FilterIdle /\ RestIdle
    /\ pc = "dedup_loop"
    /\ expenses \in SeqsUpTo(DedupRecords, MaxExpenses)
    /\ seen = {}
    /\ deduplicated = <<>>
    /\ dedup_i = 1

\* one iteration of "for expense in expenses"
DedupStep ==
    /\ pc = "dedup_loop"
    /\ dedup_i <= Len(expenses)
    /\ LET expense == expenses[dedup_i]
           key == DedupKey(expense)
       IN  IF key \notin seen
           THEN /\ seen' = seen \cup {key}
                /\ deduplicated' = Keep(deduplicated, expense)
           ELSE UNCHANGED <<seen, deduplicated>>
    /\ dedup_i' = dedup_i + 1
    /\ UNCHANGED <<pc, expenses, amountVars, toolVars, filterVars, restVars>>

\* return deduplicated
DedupReturn ==
    /\ pc = "dedup_loop"
    /\ dedup_i > Len(expenses)
    /\ pc' = "dedup_done"
    /\ UNCHANGED <<dedupVars, amountVars, toolVars, filterVars, restVars>>

DedupNext == DedupStep \/ DedupReturn
SpecDedup == DedupInit /\ [][DedupNext]_vars

IsCategory(e) == e.payment_status = <<"C","a","t","e","g","o","r","y">>
\* the key the claim gives: (payee_name, amount, date, expense_type) for an
\* itemized record, (purpose, amount, date) for a category record
SameClaimKey(a, b) ==
    /\ IsCategory(a) = IsCategory(b)
    /\ a.amount = b.amount
    /\ a.date = b.date
    /\ IF IsCategory(a) THEN a.purpose = b.purpose
       ELSE a.payee_name = b.payee_name /\ a.expense_type = b.expense_type

\* C2: the list built by deduplicate_expenses never holds two itemized records
\* with the same (payee_name, amount, date, expense_type) nor two category
\* records with the same (purpose, amount, date); so of the records that differ
\* only in source_report at most one is kept.
C2_NoDuplicateKeys ==
    pc \in {"dedup_loop", "dedup_done"} =>
      \A i, j \in 1..Len(deduplicated) :
          i < j => ~SameClaimKey(deduplicated[i], deduplicated[j])
C2_Witness ==
    /\ pc = "dedup_done"
    /\ \E i, j \in 1..Len(expenses) :
          /\ i < j
          /\ expenses[i].source_report # expenses[j].source_report
          /\ [expenses[i] EXCEPT !.source_report = <<>>] = [expenses[j] EXCEPT !.source_report = <<>>]
    /\ Len(deduplicated) < Len(expenses)

\* the positions of the input that hold the first record of their key
FirstOfKey(list) ==
    {i \in 1..Len(list) : \A j \in 1..(i - 1) : ~SameClaimKey(list[j], list[i])}

\* C3: first occurrence wins: the returned list is the input restricted, in the
\* input's order, to the earliest record of every key; so it is a subsequence of
\* the input, every key of the input occurs in it, and the record kept for a key
\* is the earliest one.
C3_FirstOccurrenceWins ==
    pc = "dedup_done" => deduplicated = SelectIdx(expenses, FirstOfKey(expenses))
C3_Witness ==
    /\ pc = "dedup_done"
    /\ Len(expenses) = 3
    /\ SameClaimKey(expenses[1], expenses[3])
    /\ ~SameClaimKey(expenses[1], expenses[2])
    /\ expenses[1] # expenses[3]
    /\ deduplicated = <<expenses[1], expenses[2]>>

\* --------------------------- Spec: filter_latest_reports (donor and expense)

\* int() of a run of digits
RECURSIVE ToInt(_)
ToInt(ds) == IF ds = <<>> THEN 0 ELSE 10 * ToInt(SubSeq(ds, 1, Len(ds) - 1)) + DigitVal(ds[Len(ds)])
AllDigits(ds) == ds # <<>> /\ \A i \in 1..Len(ds) : IsDigit(ds[i])

IsLeap(y) == (y % 4 = 0 /\ y % 100 # 0) \/ y % 400 = 0
DaysInMonth(y, m) == IF m = 2 THEN (IF IsLeap(y) THEN 29 ELSE 28)
                     ELSE IF m \in {4, 6, 9, 11} THEN 30 ELSE 31

\* the datetime that stands for "strptime raised ValueError"
ValueError == <<-1, -1, -1>>
\* datetime.strptime(text, '%m/%d/%Y'): <<year, month, day>>, or ValueError
\* (%m and %d take one or two digits, %d also a space and a digit, %Y four
\* digits, and the day must exist)
strptime(text) ==
    LET parts == SplitOn(text, "/")
        day == IF Len(parts) = 3 /\ Len(parts[2]) = 2 /\ parts[2][1] = " "
               THEN Tail(parts[2]) ELSE parts[2]
    IN  IF Len(parts) # 3 \/ ~AllDigits(parts[1]) \/ ~AllDigits(day) \/ ~AllDigits(parts[3])
        THEN ValueError
        ELSE LET m == ToInt(parts[1])
                 d == ToInt(day)
                 y == ToInt(parts[3])
             IN  IF /\ Len(parts[1]) <= 2 /\ Len(parts[2]) <= 2 /\ Len(parts[3]) = 4
                    /\ m >= 1 /\ m <= 12 /\ y >= 1
                    /\ d >= 1 /\ d <= DaysInMonth(y, m)
                 THEN <<y, m, d>> ELSE ValueError

\* datetime.min
DatetimeMin == <<1, 1, 1>>
\* a < b for two datetimes
DateLess(a, b) ==
    \/ a[1] < b[1]
    \/ a[1] = b[1] /\ a[2] < b[2]
    \/ a[1] = b[1] /\ a[2] = b[2] /\ a[3] < b[3]

\* the sort key of one (pdf_file, metadata) pair
SortKey(report) ==
    IF report.metadata.date_filed # None
    THEN strptime(report.metadata.date_filed) ELSE DatetimeMin

\* reports.sort(key=..., reverse=True): descending, and stable: reports with equal
\* keys keep the order they had
RECURSIVE InsertDesc(_, _)
InsertDesc(sorted, report) ==
    IF sorted = <<>> THEN <<report>>
    ELSE IF DateLess(SortKey(Head(sorted)), SortKey(report))
         THEN <<report>> \o sorted
         ELSE <<Head(sorted)>> \o InsertDesc(Tail(sorted), report)
RECURSIVE SortDescFrom(_, _)
SortDescFrom(reports, sorted) ==
    IF reports = <<>> THEN sorted
    ELSE SortDescFrom(Tail(reports), InsertDesc(sorted, Head(reports)))
SortDescending(reports) == SortDescFrom(reports, <<>>)
SortRaises(reports) == \E i \in 1..Len(reports) : SortKey(reports[i]) = ValueError

\* reports_by_period[key].append(report) on a defaultdict(list), kept as the
\* sequence of <<key, list>> in the order the keys were first inserted
AppendToKey(by_period, key, report) ==
    IF \E k \in 1..Len(by_period) : by_period[k][1] = key
    THEN [k \in 1..Len(by_period) |->
            IF by_period[k][1] = key
            THEN <<key, Append(by_period[k][2], report)>> ELSE by_period[k]]
    ELSE Append(by_period, <<key, <<report>>>>)

\* extract_report_metadata returned None
NoMetadata == [unreadable |-> TRUE]
\* the truth value of an argument or attribute: None and "" are false
Truthy(x) == x # None /\ x # <<>>
Readable(committee, period_end, date_filed) ==
    [committee_name |-> committee,
     period_start |-> IF period_end = None THEN None ELSE <<"1","/","1","/","2","0","2","4">>,
     period_end |-> period_end,
     date_filed |-> date_filed]
\* What extract_report_metadata can return for a file: None for an unreadable
\* one, else the fields the patterns found (a date is any text of the shape
\* \d{1,2}/\d{1,2}/\d{4}, so 13/1/2024 is one).
Metadatas ==
    { NoMetadata,
      Readable(<<"A","c","m","e"," ","P","A","C">>, <<"3","/","3","1","/","2","0","2","4">>, None),
      Readable(<<"A","c","m","e"," ","P","A","C">>, <<"3","/","3","1","/","2","0","2","4">>, <<"1","/","1","/","2","0","2","4">>),
      Readable(<<"A","c","m","e"," ","P","A","C">>, <<"3","/","3","1","/","2","0","2","4">>, <<"3","/","1","/","2","0","2","4">>),
      Readable(<<"A","c","m","e"," ","P","A","C">>, <<"3","/","3","1","/","2","0","2","4">>, <<"1","0","/","1","/","2","0","2","4">>),
      Readable(<<"A","c","m","e"," ","P","A","C">>, <<"3","/","3","1","/","2","0","2","4">>, <<"1","3","/","1","/","2","0","2","4">>),
      Readable(<<"A","c","m","e"," ","P","A","C">>, <<"6","/","3","0","/","2","0","2","4">>, None),
      Readable(<<"A","c","m","e"," ","P","A","C">>, <<"6","/","3","0","/","2","0","2","4">>, <<"3","/","1","/","2","0","2","4">>),
      Readable(None, <<"3","/","3","1","/","2","0","2","4">>, <<"1","/","1","/","2","0","2","4">>),
      Readable(<<>>, <<"3","/","3","1","/","2","0","2","4">>, <<"1","/","1","/","2","0","2","4">>),
      Readable(<<"A","c","m","e"," ","P","A","C">>, None, <<"1","/","1","/","2","0","2","4">>) }
MaxFiles == 3
FileNames == <<"f1.pdf", "f2.pdf", "f3.pdf", "f4.pdf", "f5.pdf">>

FilterInit ==
    /\ ToolIdle /\ AmountIdle /\ DedupIdle /\ RestIdle
    /\ pc = "filter_scan"
    /\ \E n \in 1..MaxFiles : \E ms \in [1..n -> Metadatas] :
          pdf_files = [i \in 1..n |-> [name |-> FileNames[i], metadata |-> ms[i]]]
    /\ reports_by_period = <<>>
    /\ corrupted_files = <<>>
    /\ latest_reports = <<>>
    /\ skipped_files = <<>>
    /\ filter_i = 1

\* one iteration of "for pdf_file in pdf_files"
FilterScan ==
    /\ pc = "filter_scan"
    /\ filter_i <= Len(pdf_files)
    /\ LET pdf_file == pdf_files[filter_i]
           metadata == pdf_file.metadata
       IN  IF metadata = NoMetadata
           THEN /\ corrupted_files' = Append(corrupted_files, pdf_file.name)
                /\ UNCHANGED reports_by_period
           ELSE /\ UNCHANGED corrupted_files
                /\ IF Truthy(metadata.committee_name) /\ Truthy(metadata.period_end)
                   THEN reports_by_period' =
                          AppendToKey(reports_by_period,
                                      <<metadata.committee_name, metadata.period_end>>, pdf_file)
                   ELSE UNCHANGED reports_by_period
    /\ filter_i' = filter_i + 1
    /\ UNCHANGED <<pc, pdf_files, latest_reports, skipped_files, amountVars, toolVars, dedupVars, restVars>>

\* the first loop is over: the unreadable files are printed, the second loop starts
FilterScanned ==
    /\ pc = "filter_scan"
    /\ filter_i > Len(pdf_files)
    /\ pc' = "filter_select"
    /\ filter_i' = 1
    /\ UNCHANGED <<pdf_files, reports_by_period, corrupted_files, latest_reports,
                   skipped_files, amountVars, toolVars, dedupVars, restVars>>

\* one iteration of "for key, reports in reports_by_period.items()"
FilterSelect ==
    /\ pc = "filter_select"
    /\ filter_i <= Len(reports_by_period)
    /\ LET reports == reports_by_period[filter_i][2]
       IN  IF SortRaises(reports)
           THEN /\ pc' = "filter_raised"
                /\ UNCHANGED <<reports_by_period, latest_reports, skipped_files, filter_i>>
           ELSE LET sorted == SortDescending(reports)
                IN  /\ reports_by_period' =
                          [reports_by_period EXCEPT ![filter_i] = <<@[1], sorted>>]
                    /\ latest_reports' = Append(latest_reports, sorted[1].name)
                    /\ skipped_files' = skipped_files \o
                          [k \in 1..(Len(sorted) - 1) |-> sorted[k + 1].name]
                    /\ filter_i' = filter_i + 1
                    /\ UNCHANGED pc
    /\ UNCHANGED <<pdf_files, corrupted_files, amountVars, toolVars, dedupVars, restVars>>

\* return latest_reports
FilterReturn ==
    /\ pc = "filter_select"
    /\ filter_i > Len(reports_by_period)
    /\ pc' = "filter_done"
    /\ UNCHANGED <<filterVars, amountVars, toolVars, dedupVars, restVars>>

FilterNext == FilterScan \/ FilterScanned \/ FilterSelect \/ FilterReturn

Init == FilterInit
Next == FilterNext
Spec == Init /\ [][Next]_vars

InSeq(x, list) == \E i \in 1..Len(list) : list[i] = x
HasKey(f) == /\ f.metadata # NoMetadata
             /\ Truthy(f.metadata.committee_name) /\ Truthy(f.metadata.period_end)
KeyOf(f) == <<f.metadata.committee_name, f.metadata.period_end>>
\* the filing date as the claim ranks it: an undated file is older than any dated one
FiledOn(f) == IF f.metadata.date_filed = None THEN <<0, 0, 0>>
              ELSE strptime(f.metadata.date_filed)
FilterOver == pc \in {"filter_done", "filter_raised"}

\* The policy of C1 on a returned result: of the files of each key exactly
\* one is returned, none of the others is filed later, and the others are
\* the ones reported as skipped.
OnePerKeyLatest ==
    \A i \in 1..Len(pdf_files) : HasKey(pdf_files[i]) =>
        LET same == {j \in 1..Len(pdf_files) :
                        HasKey(pdf_files[j]) /\ KeyOf(pdf_files[j]) = KeyOf(pdf_files[i])}
            kept == {j \in same : InSeq(pdf_files[j].name, latest_reports)}
        IN  /\ Cardinality(kept) = 1
            /\ \A k \in kept : \A j \in same : ~DateLess(FiledOn(pdf_files[k]), FiledOn(pdf_files[j]))
            /\ \A j \in same \ kept : InSeq(pdf_files[j].name, skipped_files)

\* C1: for any set of readable PDFs filter_latest_reports returns exactly one
\* file per (committee_name, period_end) key, the latest filed of the key (an
\* undated file ranking oldest), and reports every other file of the key as
\* skipped.
C1_OnePerKeyLatest ==
    (FilterOver /\ \A i \in 1..Len(pdf_files) : pdf_files[i].metadata # NoMetadata)
      => (pc = "filter_done" /\ OnePerKeyLatest)

\* the metadata carries a filing date of the date shape that names no calendar day
FiledOnNoDay(f) ==
    /\ f.metadata # NoMetadata
    /\ f.metadata.date_filed # None
    /\ strptime(f.metadata.date_filed) = ValueError

\* C25: filter_latest_reports completes without raising for every list of
\* input files, a file whose filing date has the shape M/D/YYYY but names no
\* calendar day included: the filter reaches its return and every other file
\* that has a key is still kept or reported as skipped.
C25_FilterNeverRaises ==
    /\ pc # "filter_raised"
    /\ pc = "filter_done" =>
          \A i \in 1..Len(pdf_files) :
             (HasKey(pdf_files[i]) /\ ~FiledOnNoDay(pdf_files[i])) =>
                \/ InSeq(pdf_files[i].name, latest_reports)
                \/ InSeq(pdf_files[i].name, skipped_files)

\* the file is returned, reported as skipped, or reported as unreadable
AccountedFor(f) ==
    \/ InSeq(f.name, latest_reports)
    \/ InSeq(f.name, skipped_files)
    \/ InSeq(f.name, corrupted_files)

\* C26: when filter_latest_reports returns, every input file is accounted for:
\* returned as the kept version of its key, reported as a skipped older
\* version, or reported as unreadable; a readable file without a committee
\* name or a period end among them.
C26_EveryFileAccountedFor ==
    pc = "filter_done" => \A i \in 1..Len(pdf_files) : AccountedFor(pdf_files[i])

\* C26, the files the filter does handle: an unreadable file is reported as
\* unreadable and a file that has a key is kept or reported as skipped.
C26_KeyedOrUnreadableAccountedFor ==
    pc = "filter_done" =>
       \A i \in 1..Len(pdf_files) :
          (pdf_files[i].metadata = NoMetadata \/ HasKey(pdf_files[i])) => AccountedFor(pdf_files[i])

\* ------------------------------------------------ report data (PDF_Handler.py)

\* the first match of M at or after position start
FirstMatchFrom(s, M(_, _), start) ==
    IF \E i \in start..Len(s) : i >= 1 /\ M(s, i) # NoMatch
    THEN M(s, Min({i \in start..Len(s) : i >= 1 /\ M(s, i) # NoMatch}))
    ELSE NoMatch

\* the end of the whitespace run that starts at i
SpaceRunEnd(s, i) == SkipSpaces(s, i)
\* the end of the line that holds position i: the position of its newline, or Len + 1
LineEnd(s, i) ==
    IF \E k \in i..Len(s) : s[k] = "\n" THEN Min({k \in i..Len(s) : s[k] = "\n"})
    ELSE Len(s) + 1

\* DATE OF REPORT.*?(\d{1,2}/\d{1,2}/\d{4}) with re.DOTALL: group 1, or None
SearchDateOfReport(text) ==
    LET at == Find(text, <<"D","A","T","E"," ","O","F"," ","R","E","P","O","R","T">>)
        m == IF at = 0 THEN NoMatch ELSE FirstMatchFrom(text, DateAt, at + 14)
    IN  IF m = NoMatch THEN None ELSE Slice(text, m[1], m[2])

\* FROM\s+(\d{1,2}/\d{1,2}/\d{4}) at i: the span of the date
FromDateAt(s, i) ==
    IF MatchAt(s, <<"F","R","O","M">>, i) /\ IsSpace(At(s, i + 4))
    THEN DateAt(s, SkipSpaces(s, i + 4)) ELSE NoMatch
\* THROUGH\s+(\d{1,2}/\d{1,2}/\d{4}) at i: the span of the date
ThroughDateAt(s, i) ==
    IF MatchAt(s, <<"T","H","R","O","U","G","H">>, i) /\ IsSpace(At(s, i + 7))
    THEN DateAt(s, SkipSpaces(s, i + 7)) ELSE NoMatch
\* FROM\s+(date).*?THROUGH\s+(date) with re.DOTALL: <<group 1, group 2>>, or
\* <<None, None>> when the pattern is absent
SearchPeriod(text) ==
    LET from == FirstMatch(text, FromDateAt)
        through == IF from = NoMatch THEN NoMatch
                   ELSE FirstMatchFrom(text, ThroughDateAt, from[2])
    IN  IF from = NoMatch \/ through = NoMatch THEN <<None, None>>
        ELSE <<Slice(text, from[1], from[2]), Slice(text, through[1], through[2])>>

\* label\s*\n\s*: the positions where the group that follows can start, given
\* the position after the label: any non-newline character after the first
\* newline of the whitespace run, up to the character that ends the run
GroupStarts(text, after) ==
    LET run_end == SpaceRunEnd(text, after)
        newlines == {k \in after..(run_end - 1) : text[k] = "\n"}
    IN  IF newlines = {} THEN {}
        ELSE {g \in (Min(newlines) + 1)..run_end : g <= Len(text) /\ text[g] # "\n"}

\* (?=\s*\n\s*\d+\.|$) at q
CommitteeLookahead(text, q) ==
    \/ q = Len(text) + 1
    \/ q = Len(text) /\ text[q] = "\n"
    \/ LET run_end == SpaceRunEnd(text, q)
       IN  /\ \E k \in q..(run_end - 1) : text[k] = "\n"
           /\ IsDigit(At(text, run_end))
           /\ At(text, DigitRunEnd(text, run_end)) = "."
\* ([^\n]+?)(?=...) from g: the end of the shortest group, 0 if none
LazyGroupEnd(text, g) ==
    LET ends == {q \in (g + 1)..LineEnd(text, g) : CommitteeLookahead(text, q)}
    IN  IF ends = {} THEN 0 ELSE Min(ends)
\* FULL NAME OF COMMITTEE\s*\n\s*([^\n]+?)(?=\s*\n\s*\d+\.|$) tried at the label at i
CommitteeAt(text, i) ==
    IF MatchAt(text, <<"F","U","L","L"," ","N","A","M","E"," ","O","F"," ","C","O","M","M","I","T","T","E","E">>, i)
    THEN LET starts == {g \in GroupStarts(text, i + 22) : LazyGroupEnd(text, g) # 0}
         IN  IF starts = {} THEN NoMatch
             ELSE <<Max(starts), LazyGroupEnd(text, Max(starts))>>
    ELSE NoMatch
SearchCommittee(text) ==
    LET m == FirstMatch(text, CommitteeAt)
    IN  IF m = NoMatch THEN None ELSE Strip(Slice(text, m[1], m[2]))

\* the lines between the TYPE OF REPORT marker and the treasurer marker
SectionMarker(line) ==
    Contains(line, <<"T","Y","P","E"," ","O","F"," ","R","E","P","O","R","T">>) \/ (Contains(line, <<"1","5",".">>) /\ Contains(line, <<"T","Y","P","E">>))
SectionEnd(line) ==
    \/ Contains(line, <<"T","R","E","A","S","U","R","E","R">>) /\ Contains(line, <<"S","I","G","N","A","T","U","R","E">>)
    \/ Contains(line, <<"C","O","M","M","I","T","T","E","E"," ","T","R","E","A","S","U","R","E","R">>)
ReportSectionLines(lines) ==
    IF \E k \in 1..Len(lines) : SectionMarker(lines[k])
    THEN LET first == Min({k \in 1..Len(lines) : SectionMarker(lines[k])})
             stops == {k \in (first + 1)..Len(lines) :
                          ~SectionMarker(lines[k]) /\ SectionEnd(lines[k])}
             stop == IF stops = {} THEN Len(lines) + 1 ELSE Min(stops)
         IN  SelectIdx(lines, {k \in (first + 1)..(stop - 1) : ~SectionMarker(lines[k])})
    ELSE <<>>

\* report_type_patterns, in the order of the dict: the label, and the words
\* its pattern joins with \s+
ReportTypePatterns ==
    << [name |-> <<"C","O","M","M","I","T","T","E","E"," ","Q","U","A","R","T","E","R","L","Y"," ","R","E","P","O","R","T">>,
        words |-> <<<<"C","O","M","M","I","T","T","E","E">>, <<"Q","U","A","R","T","E","R","L","Y">>, <<"R","E","P","O","R","T">>>>],
       [name |-> <<"A","M","E","N","D","I","N","G"," ","P","R","E","V","I","O","U","S"," ","R","E","P","O","R","T">>,
        words |-> <<<<"A","M","E","N","D","I","N","G">>, <<"P","R","E","V","I","O","U","S">>, <<"R","E","P","O","R","T">>>>],
       [name |-> <<"1","5"," ","D","A","Y","S"," ","A","F","T","E","R"," ","C","A","U","C","U","S"," ","N","O","M","I","N","A","T","I","O","N">>,
        words |-> <<<<"1","5">>, <<"D","A","Y","S">>, <<"A","F","T","E","R">>, <<"C","A","U","C","U","S">>>>],
       [name |-> <<"8"," ","D","A","Y","S"," ","B","E","F","O","R","E">>, words |-> <<<<"8">>, <<"D","A","Y","S">>, <<"B","E","F","O","R","E">>>>],
       [name |-> <<"3","0"," ","D","A","Y","S"," ","A","F","T","E","R"," ","E","L","E","C","T","I","O","N">>,
        words |-> <<<<"3","0">>, <<"D","A","Y","S">>, <<"A","F","T","E","R">>, <<"E","L","E","C","T","I","O","N">>>>],
       [name |-> <<"T","E","R","M","I","N","A","T","I","O","N">>, words |-> <<<<"T","E","R","M","I","N","A","T","I","O","N">>>>],
       [name |-> <<"S","E","M","I","A","N","N","U","A","L"," ","D","E","B","T"," ","R","E","P","O","R","T">>,
        words |-> <<<<"S","E","M","I","A","N","N","U","A","L">>, <<"D","E","B","T">>, <<"R","E","P","O","R","T">>>>],
       [name |-> <<"A","N","N","U","A","L"," ","S","U","P","P","L","E","M","E","N","T","A","L">>, words |-> <<<<"A","N","N","U","A","L">>, <<"S","U","P","P","L","E","M","E","N","T","A","L">>>>],
       [name |-> <<"1","5"," ","D","A","Y","S"," ","A","F","T","E","R"," ","P","E","T","I","T","I","O","N"," ","D","E","A","D","L","I","N","E">>,
        words |-> <<<<"1","5">>, <<"D","A","Y","S">>, <<"A","F","T","E","R">>, <<"P","E","T","I","T","I","O","N">>>>] >>

\* word1\s+word2\s+... with re.IGNORECASE at i
RECURSIVE WordsAt(_, _, _)
WordsAt(s, words, i) ==
    /\ MatchAtIgnoreCase(s, words[1], i)
    /\ \/ Len(words) = 1
       \/ /\ IsSpace(At(s, i + Len(words[1])))
          /\ WordsAt(s, Tail(words), SkipSpaces(s, i + Len(words[1])))
\* match.start() of re.search(pattern, text, re.IGNORECASE), 0 if no match
SearchWords(s, words) ==
    IF \E i \in 1..Len(s) : WordsAt(s, words, i)
    THEN Min({i \in 1..Len(s) : WordsAt(s, words, i)}) ELSE 0

\* text[:start].count('\n')
NewlinesBefore(s, start) == Cardinality({k \in 1..(start - 1) : s[k] = "\n"})

\* re.match(r'^\s*4\s*$', line)
IsCheckLine(line) == Strip(line) = <<"4">>

\* the thresholds of QuarterOf taken strictly
QuarterOfShifted(month) ==
    IF month < 1 THEN <<"J","a","n"," ","1","5">>
    ELSE IF month < 4 THEN <<"A","p","r"," ","1","5">>
    ELSE IF month < 7 THEN <<"J","u","l"," ","1","5">>
    ELSE <<"O","c","t"," ","1","5">>
\* the deadline label of a period end month
QuarterOf(month) ==
    IF month <= 1 THEN <<"J","a","n"," ","1","5">>
    ELSE IF month <= 4 THEN <<"A","p","r"," ","1","5">>
    ELSE IF month <= 7 THEN <<"J","u","l"," ","1","5">>
    ELSE <<"O","c","t"," ","1","5">>
\* the Quarter entries a selected label adds
QuarterEntries(report_name, period_end) ==
    IF Contains(report_name, <<"Q","U","A","R","T","E","R","L","Y">>) /\ ~Falsy(period_end)
       /\ strptime(period_end) # ValueError
    THEN <<<<"Q","u","a","r","t","e","r",":"," ">> \o QuarterOf(strptime(period_end)[2])>>
    ELSE <<>>

\* re.sub(r'[_,]+', ' ', s)
RECURSIVE BlankRuns(_)
BlankRuns(s) ==
    IF s = <<>> THEN <<>>
    ELSE IF s[1] \in {"_", ","}
         THEN LET stop == IF \E k \in 1..Len(s) : s[k] \notin {"_", ","}
                          THEN Min({k \in 1..Len(s) : s[k] \notin {"_", ","}})
                          ELSE Len(s) + 1
              IN  <<" ">> \o BlankRuns(SubSeq(s, stop, Len(s)))
         ELSE <<s[1]>> \o BlankRuns(Tail(s))
IsAlphaText(s) == s # <<>> /\ \A i \in 1..Len(s) : IsAlpha(s[i])

\* the loop taking the first numeric token for the day, whatever its length
RECURSIVE AmendTokensAnyDay(_, _)
AmendTokensAnyDay(tokens, acc) ==
    IF tokens = <<>> THEN acc
    ELSE LET token == Head(tokens)
         IN  AmendTokensAnyDay(Tail(tokens),
               IF IsAlphaText(token) THEN [acc EXCEPT !.month = @ \o token]
               ELSE IF IsDigitText(token)
                    THEN (IF acc.day = None
                          THEN [acc EXCEPT !.day = token]
                          ELSE [acc EXCEPT !.year = @ \o token])
                    ELSE acc)
\* the loop over the tokens of the date portion: month letters, day, year digits
RECURSIVE AmendTokens(_, _)
AmendTokens(tokens, acc) ==
    IF tokens = <<>> THEN acc
    ELSE LET token == Head(tokens)
         IN  AmendTokens(Tail(tokens),
               IF IsAlphaText(token) THEN [acc EXCEPT !.month = @ \o token]
               ELSE IF IsDigitText(token)
                    THEN (IF acc.day = None /\ Len(token) <= 2
                          THEN [acc EXCEPT !.day = token]
                          ELSE [acc EXCEPT !.year = @ \o token])
                    ELSE acc)
\* the Amending entry one line of the search window gives, <<>> if none
AmendOfLine(line) ==
    IF /\ Contains(line, <<"D","E","M","O","C","R","A","T">>)
       /\ \/ Contains(line, <<"_">>)
          \/ \E i \in 1..Len(Replace(Replace(line, <<"D","E","M","O","C","R","A","T">>, <<>>), <<"R","E","P","U","B","L","I","C","A","N">>, <<>>)) :
                IsAlpha(Replace(Replace(line, <<"D","E","M","O","C","R","A","T">>, <<>>), <<"R","E","P","U","B","L","I","C","A","N">>, <<>>)[i])
    THEN LET at == Find(line, <<"D","E","M","O","C","R","A","T">>)
             date_portion == SubSeq(line, at + 8, Len(line))
             tokens == SplitWords(BlankRuns(date_portion))
             parsed == AmendTokens(tokens, [month |-> <<>>, day |-> None, year |-> <<>>])
         IN  IF parsed.month # <<>> /\ parsed.day # None
             THEN IF parsed.year # <<>>
                  THEN <<<<"A","m","e","n","d","i","n","g",":"," ">> \o parsed.month \o <<" ">> \o parsed.day
                           \o <<" ">> \o parsed.year>>
                  ELSE <<<<"A","m","e","n","d","i","n","g",":"," ">> \o parsed.month \o <<" ">> \o parsed.day>>
             ELSE <<>>
    ELSE <<>>
\* report_section_text[match.start():match.start() + 500]
AmendWindow == 500
RECURSIVE FirstAmend(_)
FirstAmend(amend_lines) ==
    IF amend_lines = <<>> THEN <<>>
    ELSE IF AmendOfLine(Head(amend_lines)) # <<>> THEN AmendOfLine(Head(amend_lines))
    ELSE FirstAmend(Tail(amend_lines))
AmendEntries(report_name, section_text, start) ==
    IF Contains(report_name, <<"A","M","E","N","D","I","N","G">>)
    THEN FirstAmend(SplitLines(SubSeq(section_text, start,
                                      Min({Len(section_text), start + AmendWindow - 1}))))
    ELSE <<>>

\* the glyph looked for on the line before only
EntriesOfLineBefore(p, section_text, lines_list, period_end) ==
    LET start == SearchWords(section_text, p.words)
        match_position == NewlinesBefore(section_text, start)
        prev_line == IF match_position > 0 THEN lines_list[match_position] ELSE <<>>
    IN  IF start # 0 /\ IsCheckLine(prev_line)
        THEN <<p.name>> \o QuarterEntries(p.name, period_end)
               \o AmendEntries(p.name, section_text, start)
        ELSE <<>>
\* the entries one pattern adds to report_types
EntriesOf(p, section_text, lines_list, period_end) ==
    LET start == SearchWords(section_text, p.words)
        match_position == NewlinesBefore(section_text, start)
        prev_line == IF match_position > 0 THEN lines_list[match_position] ELSE <<>>
        next_line == IF match_position + 1 < Len(lines_list)
                     THEN lines_list[match_position + 2] ELSE <<>>
    IN  IF start # 0 /\ (IsCheckLine(prev_line) \/ IsCheckLine(next_line))
        THEN <<p.name>> \o QuarterEntries(p.name, period_end)
               \o AmendEntries(p.name, section_text, start)
        ELSE <<>>
RECURSIVE Concat(_)
Concat(seqs) == IF seqs = <<>> THEN <<>> ELSE Head(seqs) \o Concat(Tail(seqs))

\* extract_mo_ethics_report_data on the text of page 1
extract_mo_ethics_report_data(text) ==
    LET period == SearchPeriod(text)
        section_lines == ReportSectionLines(SplitLines(text))
        report_section_text == Join(section_lines, <<"\n">>)
        lines_list == SplitLines(report_section_text)
        report_types == Concat([k \in 1..Len(ReportTypePatterns) |->
                                  EntriesOf(ReportTypePatterns[k], report_section_text,
                                            lines_list, period[2])])
    IN  [date_of_report |-> SearchDateOfReport(text),
         committee_name |-> SearchCommittee(text),
         period_start |-> period[1],
         period_end |-> period[2],
         report_type |-> IF report_types = <<>> THEN <<"U","n","k","n","o","w","n">>
                         ELSE Join(report_types, <<" ","|"," ">>)]

\* ------------------------------------------------ SpecReportType: page 1 of a report

\* The period line of page 1: the last day of each month of 2024, two texts
\* of the date shape that are no calendar date, or no period line at all.
PeriodEnds ==
    { <<"1","/","3","1","/","2","0","2","4">>, <<"2","/","2","9","/","2","0","2","4">>, <<"3","/","3","1","/","2","0","2","4">>, <<"4","/","3","0","/","2","0","2","4">>, <<"5","/","3","1","/","2","0","2","4">>,
      <<"6","/","3","0","/","2","0","2","4">>, <<"7","/","3","1","/","2","0","2","4">>, <<"8","/","3","1","/","2","0","2","4">>, <<"9","/","3","0","/","2","0","2","4">>, <<"1","0","/","3","1","/","2","0","2","4">>,
      <<"1","1","/","3","0","/","2","0","2","4">>, <<"1","2","/","3","1","/","2","0","2","4">>, <<"1","3","/","4","5","/","2","0","2","4">>, <<"2","/","3","0","/","2","0","2","4">> }
PeriodLines ==
    { <<>> } \cup { <<<<"F","R","O","M"," ","1","/","1","/","2","0","2","4"," ","T","H","R","O","U","G","H"," ">> \o d>> : d \in PeriodEnds }
\* The lines of the TYPE OF REPORT block: the quarterly label with the glyph
\* on the line before, on the line after, absent, on the same line; another
\* label marked; the label broken over two lines; an amendment with its date;
\* a label that stands twice, the glyph next to its second occurrence.
\* The amendment marked, and after it the line of the form that carries the
\* date: as printed; after a party line without a date; with the year first;
\* without a year; without month letters; with a second dated line after it;
\* and as printed behind a ruled line that puts it near the end of the search
\* window, across its end, or behind it.
DatedLine == <<"R","E","P","U","B","L","I","C","A","N"," ","D","E","M","O","C","R","A","T"," ","_","_","_"," ","J"," ","_"," ","u"," ","_"," ","l"," ","_"," ","y"," ","_","_","_"," ","3"," ","_","_","_",","," ","2","0"," ","_"," ","2"," ","_"," ","3"," ","_","_">>
DatedLines ==
    { <<DatedLine>>,
      <<<<"R","E","P","U","B","L","I","C","A","N"," ","D","E","M","O","C","R","A","T">>, DatedLine>>,
      <<<<"D","E","M","O","C","R","A","T"," ","2","0","2","3"," ","J","u","l","y"," ","3">>>>,
      <<<<"D","E","M","O","C","R","A","T"," ","J","u","l","y"," ","1","5">>>>,
      <<<<"D","E","M","O","C","R","A","T"," ","7"," ","3"," ","2","0","2","3">>>>,
      <<DatedLine, <<"D","E","M","O","C","R","A","T"," ","M","a","y"," ","5"," ","2","0","2","2">>>> }
Ruled(n) == [i \in 1..n |-> "_"]
RuledLengths == {400, 420, 480}
AmendLayouts ==
    { <<<<"4">>, <<"A","M","E","N","D","I","N","G"," ","P","R","E","V","I","O","U","S"," ","R","E","P","O","R","T">>, <<"D","A","T","E","D">>>> \o lines : lines \in DatedLines }
RuledLayouts ==
    { <<<<"4">>, <<"A","M","E","N","D","I","N","G"," ","P","R","E","V","I","O","U","S"," ","R","E","P","O","R","T">>, <<"D","A","T","E","D">>, Ruled(n), DatedLine>> :
        n \in RuledLengths }
SectionLayouts ==
    { <<<<"4">>, <<"C","O","M","M","I","T","T","E","E"," ","Q","U","A","R","T","E","R","L","Y"," ","R","E","P","O","R","T">>>>,
      <<<<"C","O","M","M","I","T","T","E","E"," ","Q","U","A","R","T","E","R","L","Y"," ","R","E","P","O","R","T">>, <<" ","4"," ">>>>,
      <<<<"C","O","M","M","I","T","T","E","E"," ","Q","U","A","R","T","E","R","L","Y"," ","R","E","P","O","R","T">>>>,
      <<<<"4"," ","C","O","M","M","I","T","T","E","E"," ","Q","U","A","R","T","E","R","L","Y"," ","R","E","P","O","R","T">>>>,
      <<<<"4">>, <<"T","E","R","M","I","N","A","T","I","O","N">>, <<"C","O","M","M","I","T","T","E","E"," ","Q","U","A","R","T","E","R","L","Y"," ","R","E","P","O","R","T">>>>,
      <<<<"4">>, <<"C","o","m","m","i","t","t","e","e"," ","Q","u","a","r","t","e","r","l","y">>, <<"R","e","p","o","r","t">>>>,
      <<<<"C","O","M","M","I","T","T","E","E"," ","Q","U","A","R","T","E","R","L","Y"," ","R","E","P","O","R","T">>, <<"4">>, <<"A","M","E","N","D","I","N","G"," ","P","R","E","V","I","O","U","S"," ","R","E","P","O","R","T">>, <<"D","A","T","E","D">>,
        <<"R","E","P","U","B","L","I","C","A","N"," ","D","E","M","O","C","R","A","T"," ","_","_","_"," ","J"," ","_"," ","u"," ","_"," ","l"," ","_"," ","y"," ","_","_","_"," ","3"," ","_","_","_",","," ","2","0"," ","_"," ","2"," ","_"," ","3"," ","_","_">>>>,
      <<<<"T","E","R","M","I","N","A","T","I","O","N">>, <<"D","A","T","E","D">>, <<"4">>, <<"T","E","R","M","I","N","A","T","I","O","N">>>> }
      \cup AmendLayouts
PageOne(period, layout) ==
    Join(<<<<"F","U","L","L"," ","N","A","M","E"," ","O","F"," ","C","O","M","M","I","T","T","E","E">>, <<"A","c","m","e"," ","P","A","C">>, <<"2","."," ","A","D","D","R","E","S","S">>>> \o period
           \o <<<<"D","A","T","E"," ","O","F"," ","R","E","P","O","R","T"," ","7","/","1","5","/","2","0","2","4">>, <<"1","5","."," ","T","Y","P","E"," ","O","F"," ","R","E","P","O","R","T">>>> \o layout
           \o <<<<"C","O","M","M","I","T","T","E","E"," ","T","R","E","A","S","U","R","E","R">>, <<"4">>, <<"T","E","R","M","I","N","A","T","I","O","N">>>>, <<"\n">>)
\* every period line with every layout; the ruled layouts with one period line
PageOneTexts ==
    { PageOne(period, layout) : period \in PeriodLines, layout \in SectionLayouts }
      \cup { PageOne(<<<<"F","R","O","M"," ","1","/","1","/","2","0","2","4"," ","T","H","R","O","U","G","H"," ","6","/","3","0","/","2","0","2","4">>>>, layout) : layout \in RuledLayouts }

ReportInit ==
    /\ ToolIdle /\ AmountIdle /\ DedupIdle /\ FilterIdle /\ TableIdle /\ BatchIdle
    /\ pc = "report"
    /\ page_text \in PageOneTexts \cup {None}
    /\ extracted_data = NoRecord
    /\ MetaIdle

\* extract_mo_ethics_report_data: a page without text makes re.search raise
DecodeReport ==
    /\ pc = "report"
    /\ IF page_text = None
       THEN pc' = "report_raised" /\ UNCHANGED extracted_data
       ELSE pc' = "report_done" /\ extracted_data' = extract_mo_ethics_report_data(page_text)
    /\ UNCHANGED <<page_text, metaVars, amountVars, toolVars, dedupVars, filterVars, tableVars,
                   batchVars>>

SpecReportType == ReportInit /\ [][DecodeReport]_vars

QuarterlyLabel == <<"C","O","M","M","I","T","T","E","E"," ","Q","U","A","R","T","E","R","L","Y"," ","R","E","P","O","R","T">>
QuarterlySelected ==
    pc = "report_done" /\ Contains(extracted_data.report_type, QuarterlyLabel)
\* the month of a period end as the claim reads it: the digits before the first "/"
ClaimMonth(period_end) == ToInt(SplitOn(period_end, "/")[1])
ClaimDeadline(month) ==
    IF month <= 1 THEN <<"J","a","n"," ","1","5">>
    ELSE IF month <= 4 THEN <<"A","p","r"," ","1","5">>
    ELSE IF month <= 7 THEN <<"J","u","l"," ","1","5">>
    ELSE <<"O","c","t"," ","1","5">>
QuarterFollows ==
    Contains(extracted_data.report_type,
             QuarterlyLabel \o <<" ","|"," ","Q","u","a","r","t","e","r",":"," ">>
               \o ClaimDeadline(ClaimMonth(extracted_data.period_end)))
IsCalendarDate(text) == strptime(text) # ValueError

\* C10 as stated: when COMMITTEE QUARTERLY REPORT is selected on page 1 and
\* period_end is known, report_type holds the label immediately followed by
\* "Quarter: <deadline>", the deadline being Jan 15, Apr 15, Jul 15 or Oct 15
\* for a period_end month <= 1, <= 4, <= 7 or later.
C10_QuarterWheneverKnown ==
    (QuarterlySelected /\ extracted_data.period_end # None) => QuarterFollows

\* C10 (amended): the same, for a period_end that is a calendar date; a
\* period_end that only has the shape of a date (13/45/2024, 2/30/2024) adds
\* no Quarter entry.
C10_QuarterLabel ==
    /\ (QuarterlySelected /\ extracted_data.period_end # None
          /\ IsCalendarDate(extracted_data.period_end)) => QuarterFollows
    /\ (QuarterlySelected /\ extracted_data.period_end # None
          /\ ~IsCalendarDate(extracted_data.period_end))
         => ~Contains(extracted_data.report_type, <<"Q","u","a","r","t","e","r",":">>)

\* the example of the claim: the label preceded by "4", period_end 6/30/2024
C10_Witness ==
    /\ pc = "report_done"
    /\ extracted_data.period_end = <<"6","/","3","0","/","2","0","2","4">>
    /\ Contains(page_text, <<"4","\n","C","O","M","M","I","T","T","E","E"," ","Q","U","A","R","T","E","R","L","Y"," ","R","E","P","O","R","T">>)
    /\ extracted_data.report_type = <<"C","O","M","M","I","T","T","E","E"," ","Q","U","A","R","T","E","R","L","Y"," ","R","E","P","O","R","T"," ","|"," ","Q","u","a","r","t","e","r",":"," ","J","u","l"," ","1","5">>

\* the entries of a report_type string, split at its separators
TypeEntries(report_type) ==
    [k \in 1..Len(SplitOn(report_type, "|")) |-> Strip(SplitOn(report_type, "|")[k])]
\* how often a label stands among the entries
LabelCount(entries, name) == Cardinality({k \in 1..Len(entries) : entries[k] = name})
\* the positions of the block text where a phrase occurs
Occurrences(block_text, words) ==
    {i \in 1..Len(block_text) : WordsAt(block_text, words, i)}
\* line k of the block consists of the glyph "4" alone
SoleGlyph(block, k) == k >= 1 /\ k <= Len(block) /\ Strip(block[k]) = <<"4">>
\* the occurrence at position i has the glyph on the line before or after
GlyphNextTo(block, block_text, i) ==
    \/ SoleGlyph(block, NewlinesBefore(block_text, i))
    \/ SoleGlyph(block, NewlinesBefore(block_text, i) + 2)
\* some occurrence of the phrase has the glyph next to it
PhraseMarked(block, block_text, words) ==
    \E i \in Occurrences(block_text, words) : GlyphNextTo(block, block_text, i)
\* the first occurrence of the phrase has the glyph next to it
FirstOccurrenceMarked(block, block_text, words) ==
    /\ Occurrences(block_text, words) # {}
    /\ GlyphNextTo(block, block_text, Min(Occurrences(block_text, words)))
UnknownType == <<"U","n","k","n","o","w","n">>
SelectedAsStated(block, block_text, entries, report_type) ==
    /\ \A k \in 1..Len(ReportTypePatterns) :
          LabelCount(entries, ReportTypePatterns[k].name) > 0
            => PhraseMarked(block, block_text, ReportTypePatterns[k].words)
    /\ (report_type = UnknownType)
         <=> ~\E k \in 1..Len(ReportTypePatterns) :
                 PhraseMarked(block, block_text, ReportTypePatterns[k].words)
    /\ \A k \in 1..Len(ReportTypePatterns) :
          LabelCount(entries, ReportTypePatterns[k].name) <= 1
SelectedByFirstOccurrence(block, block_text, entries, report_type) ==
    /\ \A k \in 1..Len(ReportTypePatterns) :
          LabelCount(entries, ReportTypePatterns[k].name)
            = IF FirstOccurrenceMarked(block, block_text, ReportTypePatterns[k].words)
              THEN 1 ELSE 0
    /\ (report_type = UnknownType)
         <=> ~\E k \in 1..Len(ReportTypePatterns) :
                 FirstOccurrenceMarked(block, block_text, ReportTypePatterns[k].words)
\* the block of page 1 between the TYPE OF REPORT marker and the treasurer marker
TypeBlock == ReportSectionLines(SplitLines(page_text))

\* C11 as stated: a label is in report_type only if its phrase occurs in the
\* block with a line holding only "4" right before or after that occurrence;
\* report_type is "Unknown" exactly when no phrase occurs so; no label is
\* listed twice.
C11_SelectedByAdjacentGlyph ==
    pc = "report_done" =>
        SelectedAsStated(TypeBlock, Join(TypeBlock, <<"\n">>),
                         TypeEntries(extracted_data.report_type),
                         extracted_data.report_type)

\* C11 (amended): only the first occurrence of a phrase in the block is
\* looked at. A label is in report_type, once, exactly when the first
\* occurrence of its phrase has a line holding only "4" (blanks aside) right
\* before or after the line it starts on; report_type is "Unknown" exactly
\* when no label is selected so.
C11_FirstOccurrenceDecides ==
    pc = "report_done" =>
        SelectedByFirstOccurrence(TypeBlock, Join(TypeBlock, <<"\n">>),
                                  TypeEntries(extracted_data.report_type),
                                  extracted_data.report_type)

\* TERMINATION marked and selected while the quarterly phrase, in the same
\* block without a glyph next to it, is not
C11_Witness ==
    /\ pc = "report_done"
    /\ extracted_data.report_type = <<"T","E","R","M","I","N","A","T","I","O","N">>
    /\ Contains(Join(TypeBlock, <<"\n">>), QuarterlyLabel)
    /\ Contains(Join(TypeBlock, <<"\n">>), <<"4","\n","T","E","R","M","I","N","A","T","I","O","N">>)

AmendingLabel == <<"A","M","E","N","D","I","N","G"," ","P","R","E","V","I","O","U","S"," ","R","E","P","O","R","T">>
AmendingSelected ==
    pc = "report_done" /\ LabelCount(TypeEntries(extracted_data.report_type), AmendingLabel) > 0
\* the 500 characters of the block searched for the date, from the label on
SearchWindow ==
    LET block_text == Join(TypeBlock, <<"\n">>)
        at == Find(block_text, AmendingLabel)
    IN  SubSeq(block_text, at, Min({Len(block_text), at + 499}))
\* the tokens after DEMOCRAT on a line, underscores and commas being blanks
DateTokens(line) ==
    LET rest == SubSeq(line, Find(line, <<"D","E","M","O","C","R","A","T">>) + 8, Len(line))
    IN  SplitWords([i \in 1..Len(rest) |-> IF rest[i] \in {"_", ","} THEN " " ELSE rest[i]])
MonthTokens(tokens) == {i \in 1..Len(tokens) : IsAlphaText(tokens[i])}
NumberTokens(tokens) == {i \in 1..Len(tokens) : IsDigitText(tokens[i])}
DayTokens(tokens) == {i \in NumberTokens(tokens) : Len(tokens[i]) <= 2}
\* the line carries month letters and a day
CarriesDate(line) ==
    /\ Contains(line, <<"D","E","M","O","C","R","A","T">>)
    /\ MonthTokens(DateTokens(line)) # {}
    /\ DayTokens(DateTokens(line)) # {}
\* "Amending: <month> <day> <year>" as the claim builds it from the tokens
ClaimedAmending(tokens) ==
    LET day == Min(DayTokens(tokens))
        year == Join(SelectIdx(tokens, NumberTokens(tokens) \ {day}), <<>>)
    IN  <<"A","m","e","n","d","i","n","g",":"," ">> \o Join(SelectIdx(tokens, MonthTokens(tokens)), <<>>)
          \o <<" ">> \o tokens[day] \o (IF year = <<>> THEN <<>> ELSE <<" ">> \o year)
DatedWindowLines(window_lines) ==
    {k \in 1..Len(window_lines) : CarriesDate(window_lines[k])}
AmendingEntries(entries) ==
    {k \in 1..Len(entries) : StartsWith(entries[k], <<"A","m","e","n","d","i","n","g",":">>)}

\* C24: when AMENDING PREVIOUS REPORT is selected and a line of the 500
\* characters after the match contains DEMOCRAT with month letters and a day,
\* report_type holds, right after the label, "Amending: <month> <day> <year>"
\* built from the first such line: the alphabetic tokens after DEMOCRAT
\* joined, the first numeric token of at most two digits, the other numeric
\* tokens joined; and report_type never holds more than one Amending entry.
C24_AmendingDate ==
    AmendingSelected =>
      /\ DatedWindowLines(SplitLines(SearchWindow)) # {} =>
            Contains(extracted_data.report_type,
                     AmendingLabel \o <<" ","|"," ">> \o
                       ClaimedAmending(DateTokens(
                         SplitLines(SearchWindow)[
                           Min(DatedWindowLines(SplitLines(SearchWindow)))])))
      /\ Cardinality(AmendingEntries(TypeEntries(extracted_data.report_type))) <= 1
\* the example of the claim
C24_Witness ==
    /\ pc = "report_done"
    /\ Contains(page_text, <<"D","E","M","O","C","R","A","T"," ","_","_","_"," ","J"," ","_"," ","u"," ","_"," ","l"," ","_"," ","y"," ","_","_","_"," ","3"," ","_","_","_",","," ","2","0"," ","_"," ","2"," ","_"," ","3"," ","_","_">>)
    /\ extracted_data.report_type = <<"A","M","E","N","D","I","N","G"," ","P","R","E","V","I","O","U","S"," ","R","E","P","O","R","T"," ","|"," ","A","m","e","n","d","i","n","g",":"," ","J","u","l","y"," ","3"," ","2","0","2","3">>

\* ------------------------------------- report metadata (donor_extractor.py, expense_extractor.py)

\* label\s*\n\s*([^\n]+) with the label ending before position after: the span
\* of the group, the greedy \s* leaving it the last start it can have
CommitteeGroup(text, starts) ==
    IF starts = {} THEN NoMatch ELSE <<Max(starts), LineEnd(text, Max(starts))>>
\* FULL NAME OF COMMITTEE\s*\n\s*([^\n]+) at i
FullNameOfCommitteeAt(text, i) ==
    IF MatchAt(text, <<"F","U","L","L"," ","N","A","M","E"," ","O","F"," ","C","O","M","M","I","T","T","E","E">>, i)
    THEN CommitteeGroup(text, GroupStarts(text, i + 22)) ELSE NoMatch
\* Name of Committee\s*\n\s*([^\n]+) with re.IGNORECASE at i
NameOfCommitteeAt(text, i) ==
    IF MatchAtIgnoreCase(text, <<"N","A","M","E"," ","O","F"," ","C","O","M","M","I","T","T","E","E">>, i)
    THEN CommitteeGroup(text, GroupStarts(text, i + 17)) ELSE NoMatch
\* match.group(1).strip(), or None without a match
StrippedGroup(text, m) == IF m = NoMatch THEN None ELSE Strip(Slice(text, m[1], m[2]))
\* Report Date\s*\n\s*(\d{1,2}/\d{1,2}/\d{4}) with re.IGNORECASE at i
ReportDateAt(text, i) ==
    IF /\ MatchAtIgnoreCase(text, <<"R","E","P","O","R","T"," ","D","A","T","E">>, i)
       /\ \E k \in (i + 11)..(SpaceRunEnd(text, i + 11) - 1) : text[k] = "\n"
    THEN DateAt(text, SpaceRunEnd(text, i + 11)) ELSE NoMatch
\* match.group(1), or what the second pattern finds
GroupOrElse(text, m, other) == IF m = NoMatch THEN other ELSE Slice(text, m[1], m[2])

\* the loop over the lines of page 1 that sets is_amendment
AmendmentChecked(lines) ==
    \E i \in 1..Len(lines) :
        /\ Contains(lines[i], <<"A","M","E","N","D","I","N","G"," ","P","R","E","V","I","O","U","S"," ","R","E","P","O","R","T">>)
        /\ \/ i > 1 /\ Strip(lines[i - 1]) = <<"4">>
           \/ i < Len(lines) /\ Strip(lines[i + 1]) = <<"4">>

\* the dict of a readable page 1
MetadataDict(committee_name, period, date_filed, is_amendment) ==
    [committee_name |-> committee_name,
     period_start |-> period[1],
     period_end |-> period[2],
     date_filed |-> date_filed,
     is_amendment |-> is_amendment]
\* extract_report_metadata of donor_extractor on the text of page 1; None
\* (the exception caught) for a page without text
donor_extract_report_metadata(text) ==
    IF text = None THEN NoMetadata
    ELSE MetadataDict(StrippedGroup(text, FirstMatch(text, FullNameOfCommitteeAt)),
                      SearchPeriod(text),
                      SearchDateOfReport(text),
                      AmendmentChecked(SplitLines(text)))
\* extract_report_metadata of expense_extractor
expense_extract_report_metadata(text) ==
    IF text = None THEN NoMetadata
    ELSE MetadataDict(IF FirstMatch(text, NameOfCommitteeAt) # NoMatch
                      THEN StrippedGroup(text, FirstMatch(text, NameOfCommitteeAt))
                      ELSE StrippedGroup(text, FirstMatch(text, FullNameOfCommitteeAt)),
                      SearchPeriod(text),
                      GroupOrElse(text, FirstMatch(text, ReportDateAt), SearchDateOfReport(text)),
                      FALSE)

\* ------------------------------------------------ SpecMetadata: page 1 through the three resolvers

\* The lines of page 1: the committee label in its two spellings, with a
\* numbered line or another line after the name, or absent; the period line;
\* the filing date under its two labels; the amendment line with the glyph
\* before it, after it, on the same line, or without it.
CommitteeLines ==
    { <<<<"F","U","L","L"," ","N","A","M","E"," ","O","F"," ","C","O","M","M","I","T","T","E","E">>, <<"A","c","m","e"," ","P","A","C">>, <<"2","."," ","A","D","D","R","E","S","S">>>>,
      <<<<"N","a","m","e"," ","o","f"," ","C","o","m","m","i","t","t","e","e">>, <<"A","c","m","e"," ","P","A","C">>, <<"2","."," ","A","D","D","R","E","S","S">>>>,
      <<<<"F","U","L","L"," ","N","A","M","E"," ","O","F"," ","C","O","M","M","I","T","T","E","E">>, <<"A","c","m","e"," ","P","A","C">>, <<"T","r","e","a","s","u","r","e","r",":"," ","J"," ","D","o","e">>>>,
      <<<<"F","U","L","L"," ","N","A","M","E"," ","O","F"," ","C","O","M","M","I","T","T","E","E"," "," ">>, <<>>, <<" "," ","A","c","m","e"," ","P","A","C"," ">>, <<" ","2","."," ","A","D","D","R","E","S","S">>>>,
      <<<<"M","I","S","S","O","U","R","I"," ","E","T","H","I","C","S"," ","C","O","M","M","I","S","S","I","O","N">>>> }
MetaPeriodLines == { <<>>, <<<<"F","R","O","M"," ","1","/","1","/","2","0","2","4"," ","T","H","R","O","U","G","H"," ","3","/","3","1","/","2","0","2","4">>>> }
FiledLines ==
    { <<>>, <<<<"D","A","T","E"," ","O","F"," ","R","E","P","O","R","T"," ","4","/","1","5","/","2","0","2","4">>>>, <<<<"R","e","p","o","r","t"," ","D","a","t","e">>, <<"4","/","1","6","/","2","0","2","4">>>> }
AmendLines ==
    { <<<<"4">>, <<"A","M","E","N","D","I","N","G"," ","P","R","E","V","I","O","U","S"," ","R","E","P","O","R","T">>>>,
      <<<<"A","M","E","N","D","I","N","G"," ","P","R","E","V","I","O","U","S"," ","R","E","P","O","R","T"," ","D","A","T","E","D">>, <<" ","4"," ">>>>,
      <<<<"A","M","E","N","D","I","N","G"," ","P","R","E","V","I","O","U","S"," ","R","E","P","O","R","T">>>>,
      <<<<"4"," ","A","M","E","N","D","I","N","G"," ","P","R","E","V","I","O","U","S"," ","R","E","P","O","R","T">>>>,
      <<<<"4">>, <<"C","O","M","M","I","T","T","E","E"," ","Q","U","A","R","T","E","R","L","Y"," ","R","E","P","O","R","T">>, <<"A","M","E","N","D","I","N","G"," ","P","R","E","V","I","O","U","S"," ","R","E","P","O","R","T">>>>,
      <<<<"4">>, <<"C","O","M","M","I","T","T","E","E"," ","Q","U","A","R","T","E","R","L","Y"," ","R","E","P","O","R","T">>>> }
MetaTexts ==
    { Join(committee \o period \o filed \o <<<<"1","5","."," ","T","Y","P","E"," ","O","F"," ","R","E","P","O","R","T">>>> \o amend
             \o <<<<"C","O","M","M","I","T","T","E","E"," ","T","R","E","A","S","U","R","E","R">>>>, <<"\n">>) :
        committee \in CommitteeLines, period \in MetaPeriodLines, filed \in FiledLines,
        amend \in AmendLines }

MetaInit ==
    /\ ToolIdle /\ AmountIdle /\ DedupIdle /\ FilterIdle /\ TableIdle /\ BatchIdle
    /\ pc = "meta"
    /\ page_text \in MetaTexts \cup {None}
    /\ extracted_data = NoRecord
    /\ MetaIdle

\* extract_report_metadata of donor_extractor.py on the PDF
ResolveDonorMetadata ==
    /\ pc = "meta"
    /\ donor_metadata' = donor_extract_report_metadata(page_text)
    /\ pc' = "meta_donor"
    /\ UNCHANGED <<page_text, extracted_data, expense_metadata, amountVars, toolVars, dedupVars,
                   filterVars, tableVars, batchVars>>
\* extract_report_metadata of expense_extractor.py on the same PDF
ResolveExpenseMetadata ==
    /\ pc = "meta_donor"
    /\ expense_metadata' = expense_extract_report_metadata(page_text)
    /\ pc' = "meta_expense"
    /\ UNCHANGED <<page_text, extracted_data, donor_metadata, amountVars, toolVars, dedupVars,
                   filterVars, tableVars, batchVars>>
\* extract_mo_ethics_report_data of PDF_Handler.py on the same PDF
ResolveReportData ==
    /\ pc = "meta_expense"
    /\ IF page_text = None
       THEN pc' = "meta_raised" /\ UNCHANGED extracted_data
       ELSE pc' = "meta_done" /\ extracted_data' = extract_mo_ethics_report_data(page_text)
    /\ UNCHANGED <<page_text, metaVars, amountVars, toolVars, dedupVars, filterVars, tableVars,
                   batchVars>>

MetaNext == ResolveDonorMetadata \/ ResolveExpenseMetadata \/ ResolveReportData
SpecMetadata == MetaInit /\ [][MetaNext]_vars

\* page 1 has a line that holds AMENDING PREVIOUS REPORT with a line of the
\* glyph "4" alone (blanks aside) right before or right after it
AmendingLineMarked ==
    LET lines == SplitLines(page_text)
    IN  \E k \in 1..Len(lines) :
            /\ Contains(lines[k], <<"A","M","E","N","D","I","N","G"," ","P","R","E","V","I","O","U","S"," ","R","E","P","O","R","T">>)
            /\ \E n \in {k - 1, k + 1} : n >= 1 /\ n <= Len(lines) /\ Strip(lines[n]) = <<"4">>

\* C15: both resolvers, that of the donor extractor and that of the expense
\* extractor, set is_amendment to true exactly when page 1 has a line
\* containing AMENDING PREVIOUS REPORT whose preceding or following line
\* consists solely of "4".
C15_AmendmentFlag ==
    pc = "meta_done" =>
        /\ donor_metadata.is_amendment <=> AmendingLineMarked
        /\ expense_metadata.is_amendment <=> AmendingLineMarked

\* the name the claim reads off page 1: the first line that is not blank
\* after the line of either label, None when page 1 has no label
HasCommitteeLabel(line) == Contains(Upper(line), <<"N","A","M","E"," ","O","F"," ","C","O","M","M","I","T","T","E","E">>)
NameUnderLabel(lines) ==
    IF \E k \in 1..Len(lines) : HasCommitteeLabel(lines[k])
    THEN LET label == Min({k \in 1..Len(lines) : HasCommitteeLabel(lines[k])})
             named == {n \in (label + 1)..Len(lines) : Strip(lines[n]) # <<>>}
         IN  IF named = {} THEN None ELSE Strip(lines[Min(named)])
    ELSE None

\* C16: for the same page 1 the donor extractor, the expense extractor and
\* the report-type decoder return the same committee_name, the text of the
\* line that follows the label FULL NAME OF COMMITTEE or Name of Committee.
C16_SameCommitteeName ==
    pc = "meta_done" =>
        /\ donor_metadata.committee_name = NameUnderLabel(SplitLines(page_text))
        /\ expense_metadata.committee_name = NameUnderLabel(SplitLines(page_text))
        /\ extracted_data.committee_name = NameUnderLabel(SplitLines(page_text))

\* ------------------------------------------------ SpecParse: one table through the parsers

SourceReport == <<"r",".","p","d","f">>
TableMetadata == Readable(<<"A","c","m","e"," ","P","A","C">>, <<"3","/","3","1","/","2","0","2","4">>, <<"4","/","1","5","/","2","0","2","4">>)

JaneRow ==
    <<<<"A","D","D","R","E","S","S",":"," ","J","a","n","e"," ","S","m","i","t","h","\n","4","5","6"," ","O","a","k"," ","A","v","e","\n","C","h","i","c","a","g","o",","," ","I","L"," ","6","0","6","0","1">>, <<"1","/","1","5","/","2","0","2","4">>,
      <<"$","5","0","0",".","0","0"," ","4"," ","M","O","N","E","T","A","R","Y">>>>
JohnRow ==
    <<<<"N","A","M","E",":","\n","J","o","h","n"," ","D","o","e","\n","A","D","D","R","E","S","S",":","\n","1","2","3"," ","M","a","i","n"," ","S","t","\n","C","I","T","Y","/","S","T","A","T","E",":","\n","S","t","."," ","L","o","u","i","s",","," ","M","O"," ","6","3","1","0","1">>,
      <<"1","/","1","5","/","2","0","2","4">>, <<"$","5","0","0",".","0","0"," ","4"," ","M","O","N","E","T","A","R","Y">>>>
DataRows == {JaneRow, JohnRow}
HeaderCells ==
    { <<"N","A","M","E">>, <<"D","A","T","E"," ","R","E","C","E","I","V","E","D">>, <<"A","M","O","U","N","T">>, <<"A","M","O","U","N","T"," ","M","O","N","E","T","A","R","Y">>,
      <<"P","U","R","P","O","S","E"," ","A","M","O","U","N","T"," ","T","H","I","S"," ","P","E","R","I","O","D">> }
\* header rows as wide as the data rows, and the header of the printed form,
\* whose type column stands to the right of the last cell of the data rows
HeaderRows ==
    [1..Len(JaneRow) -> HeaderCells]
      \cup { <<<<"N","A","M","E">>, <<"D","A","T","E"," ","R","E","C","E","I","V","E","D">>, <<"A","M","O","U","N","T">>, <<"M","O","N","E","T","A","R","Y"," ","/"," ","I","N","-","K","I","N","D">>>> }
FillerRow == <<<<"M","I","S","S","O","U","R","I"," ","E","T","H","I","C","S"," ","C","O","M","M","I","S","S","I","O","N">>, None, None>>
\* rows above the header: none, or as many as put the header last inside, or
\* first outside, the rows parse_contribution_table scans for it
LeadingRows == {0, DonorHeaderLimit - 1, DonorHeaderLimit}
\* rows whose first cell is a bare name of two, three and four characters, or a number
ShortNames == { <<"A","l">>, <<"B","o","b">>, <<"A","n","n","a">>, <<"1","2","3","4","5">> }
ShortNameRows == { <<name, <<"2","/","3","/","2","0","2","4">>, <<"$","1","2",".","0","0">>>> : name \in ShortNames }
\* rows whose first cell carries a label: on a single line, in lower case,
\* the employer label, and two labels in a row
LabelCells ==
    { <<"A","D","D","R","E","S","S",":"," ","J","a","n","e"," ","S","m","i","t","h">>, <<"n","a","m","e",":"," ","J","a","n","e"," ","S","m","i","t","h">>, <<"E","M","P","L","O","Y","E","R",":"," ","A","c","m","e"," ","C","o","r","p">>,
      <<"A","D","D","R","E","S","S",":"," ","N","A","M","E",":"," ","J","a","n","e"," ","S","m","i","t","h">>, <<"N","A","M","E",":"," ","J","a","n","e"," ","S","m","i","t","h","\n","E","M","P","L","O","Y","E","R",":"," ","A","c","m","e"," ","C","o","r","p">>,
      <<"J","a","n","e"," ","S","m","i","t","h","\n","e","m","p","l","o","y","e","r",":"," ","A","c","m","e"," ","C","o","r","p","\n","C","h","i","c","a","g","o",","," ","I","L"," ","6","0","6","0","1">> }
LabelRows == { <<cell, <<"2","/","3","/","2","0","2","4">>, <<"$","1","2",".","0","0">>>> : cell \in LabelCells }
ShortNameHeader == <<<<"N","A","M","E">>, <<"D","A","T","E"," ","R","E","C","E","I","V","E","D">>, <<"P","U","R","P","O","S","E"," ","A","M","O","U","N","T"," ","T","H","I","S"," ","P","E","R","I","O","D">>>>
\* type cells: the two labels, the marks "4", "X" and the checked-box glyph
\* (U+2611), and an amount, in every order
CheckedBox == <<"U+2611">>
TypeTokens == { <<"4"," ">>, <<"X"," ">>, CheckedBox \o <<" ">>, <<"M","O","N","E","T","A","R","Y"," ">>, <<"I","N","-","K","I","N","D"," ">>, <<"$","5","0",".","0","0"," ">> }
MaxTypeTokens == 3
TypeCells == TokenStrings(TypeTokens, MaxTypeTokens)
TypeHeader == <<<<"N","A","M","E">>, <<"D","A","T","E"," ","R","E","C","E","I","V","E","D">>, <<"A","M","O","U","N","T"," ","M","O","N","E","T","A","R","Y">>>>
ParseTables ==
    { [k \in 1..lead |-> FillerRow] \o <<header, row>> :
        lead \in LeadingRows, header \in HeaderRows, row \in DataRows }
      \cup { <<ShortNameHeader, row>> : row \in ShortNameRows \cup LabelRows }
      \cup { <<TypeHeader, <<JaneRow[1], JaneRow[2], cell>>>> : cell \in TypeCells }

ParseInit ==
    /\ ToolIdle /\ AmountIdle /\ DedupIdle /\ FilterIdle /\ ReportIdle /\ BatchIdle
    /\ pc = "table"
    /\ page_table \in ParseTables
    /\ donors = <<>>
    /\ page_expenses = <<>>
    /\ ClassIdle

\* the body of the table loop of extract_donors_from_pdf
ParseDonorTable ==
    /\ pc = "table"
    /\ donors' = DonorsOfTable(page_table, SourceReport, TableMetadata)
    /\ pc' = "donors_parsed"
    /\ UNCHANGED <<page_table, page_expenses, classVars, amountVars, toolVars, dedupVars, filterVars,
                   reportVars, batchVars>>

\* the body of the table loop of extract_expenses_from_pdf, for one page type
ParseExpenseTable ==
    /\ pc = "donors_parsed"
    /\ \E page_type \in {"detailed", "contributions", "category"} :
          /\ page_types' = <<page_type>>
          /\ page_expenses' = ParseAs(page_type, page_table, SourceReport, TableMetadata)
    /\ pc' = "tables_parsed"
    /\ UNCHANGED <<page_table, donors, is_contributions, is_expense, amountVars, toolVars, dedupVars,
                   filterVars, reportVars, batchVars>>

ParseNext == ParseDonorTable \/ ParseExpenseTable
SpecParse == ParseInit /\ [][ParseNext]_vars

DonorsParsed == pc \in {"donors_parsed", "tables_parsed"}
HeaderOfTable == page_table[Len(page_table) - 1]
DataRowOfTable == page_table[Len(page_table)]
\* the header row contains "DATE" and "RECEIVED"
HeaderHasDateReceived ==
    /\ \E j \in 1..Len(HeaderOfTable) : Contains(HeaderOfTable[j], <<"D","A","T","E">>)
    /\ \E j \in 1..Len(HeaderOfTable) : Contains(HeaderOfTable[j], <<"R","E","C","E","I","V","E","D">>)
\* the header row is one of the first five rows of the table
HeaderAmongFirstFive == Len(page_table) - 1 <= 5
\* the cells (counted from 1) of the header that hold one of the words
CellsWith(words) ==
    {j \in 1..Len(HeaderOfTable) : \E w \in words : Contains(HeaderOfTable[j], w)}
ColumnWords == { {<<"D","A","T","E">>}, {<<"A","M","O","U","N","T">>}, {<<"M","O","N","E","T","A","R","Y">>, <<"I","N","-","K","I","N","D">>} }
\* no two cells of the header name the same column
UntiedHeader == \A words \in ColumnWords : Cardinality(CellsWith(words)) <= 1
\* the one cell of an untied header that holds one of the words, 0 if none
CellWith(words) == IF CellsWith(words) = {} THEN 0 ELSE CHOOSE j \in CellsWith(words) : TRUE

\* C8 as stated: a header row with "DATE" and "RECEIVED" followed by the Jane
\* Smith row yields exactly one donor, with amount 500.00, type Monetary and
\* date 1/15/2024, whatever else the header row holds.
C8_AnyHeader ==
    (DonorsParsed /\ DataRowOfTable = JaneRow /\ HeaderHasDateReceived) =>
        /\ Len(donors) = 1
        /\ donors[1].amount = <<"5","0","0",".","0","0">>
        /\ donors[1].contribution_type = <<"M","o","n","e","t","a","r","y">>
        /\ donors[1].date_received = <<"1","/","1","5","/","2","0","2","4">>

\* C8 (amended): such a table yields exactly one donor, named Jane Smith.
\* When no two cells of the header name the same column, each of the three
\* fields has the stated value exactly when the header row is among the first
\* five rows and the header cell naming the field's column stands over the
\* cell of the row that holds the value: the second cell for DATE, the third
\* for AMOUNT and for MONETARY or IN-KIND.
C8_HeaderMapsColumns ==
    (DonorsParsed /\ DataRowOfTable = JaneRow /\ HeaderHasDateReceived) =>
        /\ Len(donors) = 1
        /\ donors[1].donor_name = <<"J","a","n","e"," ","S","m","i","t","h">>
        /\ UntiedHeader =>
              /\ donors[1].amount = <<"5","0","0",".","0","0">>
                   <=> (HeaderAmongFirstFive /\ CellWith({<<"A","M","O","U","N","T">>}) = 3)
              /\ donors[1].contribution_type = <<"M","o","n","e","t","a","r","y">>
                   <=> (HeaderAmongFirstFive /\ CellWith({<<"M","O","N","E","T","A","R","Y">>, <<"I","N","-","K","I","N","D">>}) = 3)
              /\ donors[1].date_received = <<"1","/","1","5","/","2","0","2","4">>
                   <=> (HeaderAmongFirstFive /\ CellWith({<<"D","A","T","E">>}) = 2)

C8_Witness ==
    /\ pc = "donors_parsed"
    /\ page_table = <<<<<<"N","A","M","E">>, <<"D","A","T","E"," ","R","E","C","E","I","V","E","D">>, <<"A","M","O","U","N","T"," ","M","O","N","E","T","A","R","Y">>>>, JaneRow>>
    /\ Len(donors) = 1
    /\ donors[1].amount = <<"5","0","0",".","0","0">>
    /\ donors[1].contribution_type = <<"M","o","n","e","t","a","r","y">>
    /\ donors[1].date_received = <<"1","/","1","5","/","2","0","2","4">>

SplitAsClaimed(name, address, city_state) ==
    /\ name = <<"J","o","h","n"," ","D","o","e">>
    /\ address = <<"1","2","3"," ","M","a","i","n"," ","S","t">>
    /\ city_state = <<"S","t","."," ","L","o","u","i","s",","," ","M","O"," ","6","3","1","0","1">>

\* C9: the composite first cell NAME: / John Doe / ADDRESS: / 123 Main St /
\* CITY/STATE: / St. Louis, MO 63101 is split into name John Doe, address
\* 123 Main St and city_state St. Louis, MO 63101 by the donor parser (always
\* one donor) and by the expense parsers (every itemized record of the row).
C9_CompositeCellSplit ==
    /\ (DonorsParsed /\ DataRowOfTable = JohnRow) =>
          /\ Len(donors) = 1
          /\ SplitAsClaimed(donors[1].donor_name, donors[1].donor_address,
                            donors[1].donor_city_state)
    /\ (pc = "tables_parsed" /\ DataRowOfTable = JohnRow) =>
          \A k \in 1..Len(page_expenses) :
              page_expenses[k].payment_status # <<"C","a","t","e","g","o","r","y">> =>
                  SplitAsClaimed(page_expenses[k].payee_name, page_expenses[k].payee_address,
                                 page_expenses[k].payee_city_state)

C9_Witness ==
    /\ pc = "tables_parsed"
    /\ DataRowOfTable = JohnRow
    /\ Len(donors) = 1
    /\ donors[1].donor_city_state = <<"S","t","."," ","L","o","u","i","s",","," ","M","O"," ","6","3","1","0","1">>
    /\ Len(page_expenses) = 1
    /\ page_expenses[1].expense_type = <<"E","x","p","e","n","s","e">>
    /\ page_expenses[1].payment_status # <<"C","a","t","e","g","o","r","y">>
    /\ page_expenses[1].payee_city_state = <<"S","t","."," ","L","o","u","i","s",","," ","M","O"," ","6","3","1","0","1">>

\* ------------------------------------------------ SpecBatch: a folder of PDFs through a batch function

\* A page: the text page.extract_text() returns (None for a page without a
\* text layer) and the tables page.extract_tables() returns.
Page(text, tables) == [text |-> text, tables |-> tables]
ImagePage == Page(None, <<>>)
CoverPage(committee, period_end, date_filed) ==
    Page(Join(<<<<"F","U","L","L"," ","N","A","M","E"," ","O","F"," ","C","O","M","M","I","T","T","E","E">>, committee, <<"2","."," ","A","D","D","R","E","S","S">>,
                <<"F","R","O","M"," ","1","/","1","/","2","0","2","4"," ","T","H","R","O","U","G","H"," ">> \o period_end>>
                \o (IF date_filed = None THEN <<>> ELSE <<<<"D","A","T","E"," ","O","F"," ","R","E","P","O","R","T"," ">> \o date_filed>>)
                \o <<<<"1","5","."," ","T","Y","P","E"," ","O","F"," ","R","E","P","O","R","T">>, <<"4">>, <<"C","O","M","M","I","T","T","E","E"," ","Q","U","A","R","T","E","R","L","Y"," ","R","E","P","O","R","T">>,
                     <<"C","O","M","M","I","T","T","E","E"," ","T","R","E","A","S","U","R","E","R">>>>, <<"\n">>),
         <<>>)
DonorPage ==
    Page(<<"I","T","E","M","I","Z","E","D"," ","C","O","N","T","R","I","B","U","T","I","O","N","S"," ","R","E","C","E","I","V","E","D">>,
         << <<<<<<"N","A","M","E">>, <<"D","A","T","E"," ","R","E","C","E","I","V","E","D">>, <<"A","M","O","U","N","T"," ","M","O","N","E","T","A","R","Y">>>>, JaneRow>> >>)
DetailedPage ==
    Page(<<"I","T","E","M","I","Z","E","D"," ","E","X","P","E","N","D","I","T","U","R","E","S"," ","O","V","E","R"," ","$","1","0","0">>,
         << <<<<<<"N","A","M","E">>, <<"D","A","T","E">>, <<"P","U","R","P","O","S","E">>, <<"A","M","O","U","N","T"," ","T","H","I","S"," ","P","E","R","I","O","D">>>>,
              <<<<"N","A","M","E",":"," ","A","c","m","e"," ","P","r","i","n","t","i","n","g","\n","A","D","D","R","E","S","S",":"," ","1"," ","M","a","i","n"," ","S","t","\n","C","I","T","Y"," ","/"," ","S","T","A","T","E",":"," ","C","o","l","u","m","b","i","a"," ","M","O">>,
                <<"2","/","1","/","2","0","2","4">>, <<"P","r","i","n","t","i","n","g">>, <<"$"," ","4"," ","P","a","i","d"," ","1","6","1",".","8","0"," ","I","n","c","u","r","r","e","d">>>>,
              <<<<"N","A","M","E",":"," ","A","c","m","e"," ","P","r","i","n","t","i","n","g","\n","A","D","D","R","E","S","S",":"," ","1"," ","M","a","i","n"," ","S","t","\n","C","I","T","Y"," ","/"," ","S","T","A","T","E",":"," ","C","o","l","u","m","b","i","a"," ","M","O">>,
                <<"2","/","1","/","2","0","2","4">>, <<"P","r","i","n","t","i","n","g">>, <<"$"," ","4"," ","P","a","i","d"," ","1","6","1",".","8","0"," ","I","n","c","u","r","r","e","d">>>>,
              <<<<"J","o","e","'","s"," ","D","i","n","e","r">>, <<"2","/","3","/","2","0","2","4">>, <<"C","a","t","e","r","i","n","g">>, <<"$","0",".","3","0">>>>>> >>)
CategoryPage ==
    Page(<<"E","X","P","E","N","D","I","T","U","R","E","S"," ","O","F"," ","$","1","0","0"," ","O","R"," ","L","E","S","S"," ","B","Y"," ","C","A","T","E","G","O","R","Y">>,
         << <<<<<<"C","A","T","E","G","O","R","Y"," ","O","F"," ","E","X","P","E","N","D","I","T","U","R","E">>, <<"A","M","O","U","N","T">>>>,
              <<<<"P","o","s","t","a","g","e">>, <<"$","0",".","2","5">>>>,
              <<<<"B","a","n","k"," ","f","e","e","s">>, <<"$","1","2",".","0","0">>>>,
              <<<<"P","a","r","k","i","n","g">>, <<"x">>>>>> >>)

\* A PDF of the folder: whether pdfplumber.open succeeds on it, and its pages.
Pdf(committee, period_end, date_filed, more_pages) ==
    [opens |-> TRUE,
     pages |-> <<CoverPage(committee, period_end, date_filed)>> \o more_pages]
BatchDocs ==
    { Pdf(<<"A","c","m","e"," ","P","A","C">>, <<"3","/","3","1","/","2","0","2","4">>, <<"4","/","1","5","/","2","0","2","4">>, <<DonorPage, DetailedPage>>),
      Pdf(<<"A","c","m","e"," ","P","A","C">>, <<"6","/","3","0","/","2","0","2","4">>, <<"7","/","1","5","/","2","0","2","4">>, <<DonorPage, CategoryPage, ImagePage>>),
      Pdf(<<"B","e","t","a"," ","P","A","C">>, <<"3","/","3","1","/","2","0","2","4">>, None, <<ImagePage, DonorPage, DetailedPage>>),
      Pdf(<<"B","e","t","a"," ","P","A","C">>, <<"6","/","3","0","/","2","0","2","4">>, <<"7","/","2","0","/","2","0","2","4">>, <<DonorPage, DonorPage>>),
      [opens |-> FALSE, pages |-> <<>>],
      [opens |-> TRUE, pages |-> <<ImagePage, DonorPage>>] }
\* extract_report_metadata reading the first page that has text (the code reads page 1)
PdfMetadataFirstTextPage(mode, doc) ==
    LET texts == SelectSeq([i \in 1..Len(doc.pages) |-> doc.pages[i].text],
                           LAMBDA t : t # None)
    IN  IF ~doc.opens \/ texts = <<>> THEN NoMetadata
        ELSE IF mode = "expenses" THEN expense_extract_report_metadata(texts[1])
        ELSE donor_extract_report_metadata(texts[1])
\* extract_report_metadata(pdf_path) of the batch function's module: None when
\* the file cannot be opened or its first page has no text, else what the
\* patterns find on the first page.
PdfMetadata(mode, doc) ==
    IF ~doc.opens \/ doc.pages = <<>> THEN NoMetadata
    ELSE IF mode = "expenses" THEN expense_extract_report_metadata(doc.pages[1].text)
    ELSE donor_extract_report_metadata(doc.pages[1].text)
MaxBatchFiles == 2

BatchInit ==
    /\ ToolIdle /\ AmountIdle /\ DedupIdle /\ TableIdle /\ ReportIdle
    /\ batch_mode \in {"donors", "expenses", "reports"}
    /\ pc = IF batch_mode = "reports" THEN "batch_loop" ELSE "filter_scan"
    /\ \E n \in 1..MaxBatchFiles : \E docs \in [1..n -> BatchDocs] :
          pdf_files = [i \in 1..n |->
                         [name |-> FileNames[i],
                          metadata |-> PdfMetadata(batch_mode, docs[i])] @@ docs[i]]
    /\ reports_by_period = <<>>
    /\ corrupted_files = <<>>
    /\ latest_reports = <<>>
    /\ skipped_files = <<>>
    /\ filter_i = 1
    /\ batch_i = 1
    /\ page_i = 0
    /\ pdf_records = <<>>
    /\ all_records = <<>>
    /\ error_log = <<>>

FileNamed(name) == pdf_files[CHOOSE i \in 1..Len(pdf_files) : pdf_files[i].name = name]
\* the file the loop of the batch function is at
BatchFile == IF batch_mode = "reports" THEN pdf_files[batch_i]
             ELSE FileNamed(latest_reports[batch_i])
BatchFiles == IF batch_mode = "reports" THEN Len(pdf_files) ELSE Len(latest_reports)

\* process_all_donors / process_all_expenses: filter_latest_reports has returned
BatchStart ==
    /\ pc = "filter_done"
    /\ batch_mode \in {"donors", "expenses"}
    /\ pc' = "batch_loop"
    /\ UNCHANGED <<amountVars, toolVars, dedupVars, filterVars, tableVars, reportVars, batchVars>>

\* extract_donors_from_pdf / extract_expenses_from_pdf up to the page loop:
\* the metadata is resolved again, and None returns the empty list
OpenPdf ==
    /\ pc = "batch_loop"
    /\ batch_mode \in {"donors", "expenses"}
    /\ batch_i <= BatchFiles
    /\ pdf_records' = <<>>
    /\ IF BatchFile.metadata = NoMetadata
       THEN pc' = "pdf_return" /\ UNCHANGED <<page_i, error_log>>
       ELSE IF ~BatchFile.opens
            THEN /\ pc' = "pdf_return"
                 /\ error_log' = Append(error_log, BatchFile.name)
                 /\ UNCHANGED page_i
            ELSE pc' = "pages" /\ page_i' = 1 /\ UNCHANGED error_log
    /\ UNCHANGED <<batch_mode, batch_i, all_records, amountVars, toolVars, dedupVars, filterVars,
                   tableVars, reportVars>>

\* the records the tables of a page give, table after table
RECURSIVE DonorsOfTables(_, _, _)
DonorsOfTables(tables, source_report, metadata) ==
    IF tables = <<>> THEN <<>>
    ELSE DonorsOfTable(Head(tables), source_report, metadata)
           \o DonorsOfTables(Tail(tables), source_report, metadata)
RECURSIVE ExpensesOfTables(_, _, _, _)
ExpensesOfTables(page_type, tables, source_report, metadata) ==
    IF tables = <<>> THEN <<>>
    ELSE ParseAs(page_type, Head(tables), source_report, metadata)
           \o ExpensesOfTables(page_type, Tail(tables), source_report, metadata)
RECURSIVE ExpensesOfTypes(_, _, _, _)
ExpensesOfTypes(types, tables, source_report, metadata) ==
    IF types = <<>> THEN <<>>
    ELSE ExpensesOfTables(Head(types), tables, source_report, metadata)
           \o ExpensesOfTypes(Tail(types), tables, source_report, metadata)

\* one iteration of the page loop; text.upper() raises on a page without
\* text, and the except clause of the function ends the loop
ReadPage ==
    /\ pc = "pages"
    /\ page_i <= Len(BatchFile.pages)
    /\ LET page == BatchFile.pages[page_i]
       IN  IF page.text = None
           THEN /\ pc' = "pdf_return"
                /\ error_log' = Append(error_log, BatchFile.name)
                /\ UNCHANGED <<page_i, pdf_records>>
           ELSE /\ pdf_records' = pdf_records \o
                     (IF batch_mode = "donors"
                      THEN (IF is_contributions_page(page.text)
                            THEN DonorsOfTables(page.tables, BatchFile.name, BatchFile.metadata)
                            ELSE <<>>)
                      ELSE ExpensesOfTypes(is_expense_page(page.text), page.tables,
                                           BatchFile.name, BatchFile.metadata))
                /\ page_i' = page_i + 1
                /\ UNCHANGED <<pc, error_log>>
    /\ UNCHANGED <<batch_mode, batch_i, all_records, amountVars, toolVars, dedupVars, filterVars,
                   tableVars, reportVars>>

\* the page loop is over
PagesRead ==
    /\ pc = "pages"
    /\ page_i > Len(BatchFile.pages)
    /\ pc' = "pdf_return"
    /\ UNCHANGED <<amountVars, toolVars, dedupVars, filterVars, tableVars, reportVars, batchVars>>

\* the function returns (the expenses deduplicated) and the batch loop extends its list
ReturnPdf ==
    /\ pc = "pdf_return"
    /\ all_records' = all_records \o
          (IF batch_mode = "expenses" THEN deduplicate_expenses(pdf_records) ELSE pdf_records)
    /\ batch_i' = batch_i + 1
    /\ pc' = "batch_loop"
    /\ UNCHANGED <<batch_mode, page_i, pdf_records, error_log, amountVars, toolVars, dedupVars,
                   filterVars, tableVars, reportVars>>

ErrorCell == <<"E","R","R","O","R">>
\* str(e) of the exception caught by process_pdfs_folder
ErrorMessage == <<"<","e","x","c","e","p","t","i","o","n"," ","m","e","s","s","a","g","e",">">>
\* one iteration of the loop of process_pdfs_folder
ReportPdf ==
    /\ pc = "batch_loop"
    /\ batch_mode = "reports"
    /\ batch_i <= BatchFiles
    /\ IF ~BatchFile.opens \/ BatchFile.pages = <<>> \/ BatchFile.pages[1].text = None
       THEN /\ all_records' = Append(all_records,
                  [filename |-> BatchFile.name, date_of_report |-> ErrorCell,
                   committee_name |-> ErrorCell, period_start |-> ErrorCell,
                   period_end |-> ErrorCell, report_type |-> ErrorMessage])
            /\ error_log' = Append(error_log, BatchFile.name)
       ELSE /\ all_records' = Append(all_records,
                  [filename |-> BatchFile.name]
                    @@ extract_mo_ethics_report_data(BatchFile.pages[1].text))
            /\ UNCHANGED error_log
    /\ batch_i' = batch_i + 1
    /\ UNCHANGED <<pc, batch_mode, page_i, pdf_records, amountVars, toolVars, dedupVars, filterVars,
                   tableVars, reportVars>>

\* the loop over the files is over: the rows are written out
BatchDone ==
    /\ pc = "batch_loop"
    /\ batch_i > BatchFiles
    /\ pc' = "batch_done"
    /\ UNCHANGED <<amountVars, toolVars, dedupVars, filterVars, tableVars, reportVars, batchVars>>

BatchNext ==
    \/ FilterScan \/ FilterScanned \/ FilterSelect \/ FilterReturn
    \/ BatchStart \/ OpenPdf \/ ReadPage \/ PagesRead \/ ReturnPdf \/ ReportPdf \/ BatchDone
SpecBatch == BatchInit /\ [][BatchNext]_vars

\* the records of the batch output, and the file each one names
BatchOutput == {all_records[i] : i \in 1..Len(all_records)}
RecordFile(r) == IF "filename" \in DOMAIN r THEN r.filename ELSE r.source_report
\* the run over the file raises: on opening it, or on a page the function reads
\* (process_pdfs_folder reads page 1 only, the extractors read every page)
FileRaises(f) ==
    \/ ~f.opens
    \/ f.pages = <<>>
    \/ IF batch_mode = "reports" THEN f.pages[1].text = None
       ELSE \E i \in 1..Len(f.pages) : f.pages[i].text = None
\* the files the batch function processes: the folder, or what the filter kept
BatchNames == IF batch_mode = "reports" THEN {pdf_files[i].name : i \in 1..Len(pdf_files)}
              ELSE {latest_reports[i] : i \in 1..Len(latest_reports)}

\* C4 as stated: every record extract_expenses_from_pdf returns carries a
\* plain decimal amount of value at least 0.50, and a non-empty payee_name
\* unless it is a Category record.
C4_AmountAtLeastHalf ==
    batch_mode = "expenses" =>
      \A r \in BatchOutput :
        /\ r.amount # None
        /\ IsNumeral(r.amount)
        /\ ~ValueBelowHalf(r.amount)
        /\ r.payment_status # <<"C","a","t","e","g","o","r","y">> => ~Falsy(r.payee_name)

\* C5 as stated: when the run over a PDF raises, the batch output holds no
\* record or row for that PDF, and every other PDF of the batch is processed.
C5_FailureIsolated ==
    pc = "batch_done" =>
      \A i \in 1..Len(pdf_files) :
        LET f == pdf_files[i]
        IN  /\ FileRaises(f) => ~\E r \in BatchOutput : RecordFile(r) = f.name
            /\ (~FileRaises(f) /\ f.name \in BatchNames)
                 => \E r \in BatchOutput : RecordFile(r) = f.name

\* the first cell of the data row of the table in hand, and the amount column
\* the parser in hand reads
FirstCell == Strip(StrOrEmpty(DataRowOfTable[1]))
TooShortOrNumeric(cell) == Len(cell) < 3 \/ IsDigitText(cell)
ParserAmountCol ==
    IF page_types = <<"detailed">> THEN DetailedColumns(page_table).amount_col
    ELSE ContribColumns(page_table).amount_col
ItemizedParsed == pc = "tables_parsed" /\ page_types \in {<<"detailed">>, <<"contributions">>}

\* C19 as stated, donor parser: a row whose first cell is shorter than 3
\* characters or purely numeric gives no donor.
C19_DonorRowRejected ==
    (pc \in {"donors_parsed", "tables_parsed"} /\ TooShortOrNumeric(FirstCell)) => donors = <<>>
\* C19 as stated, expense parsers: such a row gives no expense, and a row whose
\* first cell has 3 or more characters, is not purely numeric and holds no
\* boilerplate phrase gives a record when its amount is valid.
C19_RowFilters ==
    ItemizedParsed =>
      /\ TooShortOrNumeric(FirstCell) => page_expenses = <<>>
      /\ (/\ ~TooShortOrNumeric(FirstCell)
          /\ ~is_form_summary_row(FirstCell)
          /\ HasValidAmount(DataRowOfTable, ParserAmountCol)) => page_expenses # <<>>

\* the type cell of the data row, and the places a label stands at in it
TypeCell == Strip(StrOrEmpty(DataRowOfTable[3]))
TypeLabels == { <<"M","O","N","E","T","A","R","Y">>, <<"I","N","-","K","I","N","D">> }
LabelAt(label, i) == MatchAt(Upper(TypeCell), label, i)
\* the end of the last label that stands before position i, 1 if there is none
PreviousLabelEnd(i) ==
    Max({1} \cup UNION {{j + Len(label) : j \in {k \in 1..(i - 1) : LabelAt(label, k)}} :
                           label \in TypeLabels})
HoldsMark(segment) ==
    \/ Contains(segment, <<"4">>)
    \/ Contains(Upper(segment), <<"X">>)
    \/ Contains(segment, CheckedBox)
\* a mark stands in the segment that precedes an occurrence of the label
LabelMarked(label) ==
    \E i \in 1..Len(TypeCell) :
        LabelAt(label, i) /\ HoldsMark(Slice(TypeCell, PreviousLabelEnd(i), i))
TypeRowParsed ==
    DonorsParsed /\ HeaderOfTable = TypeHeader /\ Len(page_table) = 2 /\ Len(donors) = 1

\* C20 as stated: contribution_type is Monetary only when a mark stands in the
\* segment preceding the MONETARY label, In-Kind only when a mark stands in
\* the segment preceding the IN-KIND label, and null when neither segment
\* holds a mark.
C20_TypeOnlyWhenMarked ==
    TypeRowParsed =>
      /\ donors[1].contribution_type = <<"M","o","n","e","t","a","r","y">> => LabelMarked(<<"M","O","N","E","T","A","R","Y">>)
      /\ donors[1].contribution_type = <<"I","n","-","K","i","n","d">> => LabelMarked(<<"I","N","-","K","I","N","D">>)
      /\ (~LabelMarked(<<"M","O","N","E","T","A","R","Y">>) /\ ~LabelMarked(<<"I","N","-","K","I","N","D">>))
            => donors[1].contribution_type = None

\* the header row the parser finds in the table in hand (1-based), 0 if none
FoundHeader(limit, Test(_)) == HeaderRow(page_table, limit, Test) + 1
\* the first cell (0-based) of the found header that passes the role's test
FirstCellFor(limit, Test(_), Role(_)) ==
    IF FoundHeader(limit, Test) = 0 THEN NoCol
    ELSE FirstCol(page_table[FoundHeader(limit, Test)], Role)

\* C21 as stated: in each of the three table parsers every column role is
\* mapped to the first cell of the header row that matches the role's keyword.
C21_FirstMatchingCell ==
    pc = "tables_parsed" =>
      /\ DonorColumns(page_table).date_col
            = FirstCellFor(DonorHeaderLimit, DonorHeaderTest, DonorDateCell)
      /\ DonorColumns(page_table).amount_col
            = FirstCellFor(DonorHeaderLimit, DonorHeaderTest, DonorAmountCell)
      /\ DonorColumns(page_table).type_col
            = FirstCellFor(DonorHeaderLimit, DonorHeaderTest, DonorTypeCell)
      /\ DetailedColumns(page_table).date_col
            = FirstCellFor(ExpenseHeaderLimit, DetailedHeaderTest, DetailedDateCell)
      /\ DetailedColumns(page_table).purpose_col
            = FirstCellFor(ExpenseHeaderLimit, DetailedHeaderTest, DetailedPurposeCell)
      /\ DetailedColumns(page_table).amount_col
            = FirstCellFor(ExpenseHeaderLimit, DetailedHeaderTest, DetailedAmountCell)
      /\ ContribColumns(page_table).date_col
            = FirstCellFor(ExpenseHeaderLimit, ContribHeaderTest, ContribDateCell)
      /\ ContribColumns(page_table).amount_col
            = FirstCellFor(ExpenseHeaderLimit, ContribHeaderTest, ContribAmountCell)
\* C21, the records: a header with DATE RECEIVED in its first two cells over
\* the Jane Smith row leaves date_received null, the first cell holding no date.
C21_FirstDateCellRead ==
    (DonorsParsed /\ DataRowOfTable = JaneRow /\ Len(page_table) = 2
       /\ HeaderOfTable = <<<<"D","A","T","E"," ","R","E","C","E","I","V","E","D">>, <<"D","A","T","E"," ","R","E","C","E","I","V","E","D">>, <<"A","M","O","U","N","T">>>>)
      => (Len(donors) = 1 /\ donors[1].date_received = None)

NameLabels == { <<"N","A","M","E",":">>, <<"A","D","D","R","E","S","S",":">>, <<"C","I","T","Y","/","S","T","A","T","E",":">>, <<"E","M","P","L","O","Y","E","R",":">> }
BeginsWithLabel(name) ==
    name # None /\ \E label \in NameLabels : StartsWith(Upper(name), label)

\* C22 as stated: no donor the donor parser emits has a donor_name, and no
\* expense the expense parsers emit has a payee_name, that begins with one of
\* the labels NAME:, ADDRESS:, CITY/STATE: or EMPLOYER: in any letter case.
C22_NoLabelInName ==
    /\ DonorsParsed => \A k \in 1..Len(donors) : ~BeginsWithLabel(donors[k].donor_name)
    /\ pc = "tables_parsed" =>
          \A k \in 1..Len(page_expenses) : ~BeginsWithLabel(page_expenses[k].payee_name)
\* C22, the donor half and the expense half on their own
C22_DonorNameClean ==
    DonorsParsed => \A k \in 1..Len(donors) : ~BeginsWithLabel(donors[k].donor_name)
C22_PayeeNameClean ==
    pc = "tables_parsed" =>
        \A k \in 1..Len(page_expenses) : ~BeginsWithLabel(page_expenses[k].payee_name)

\* the third value line of the first cell of the row in hand
ThirdValueLine ==
    IF DataRowOfTable = JaneRow THEN <<"C","h","i","c","a","g","o",","," ","I","L"," ","6","0","6","0","1">> ELSE <<"S","t","."," ","L","o","u","i","s",","," ","M","O"," ","6","3","1","0","1">>
ThreeValueLines == DataRowOfTable \in {JaneRow, JohnRow}

\* C23 as stated: for a first cell with three value lines, with labels (the
\* John Doe cell) or without (the Jane Smith cell), the third value line
\* becomes city_state, in the donor parser as in the expense parsers.
C23_ThirdLineIsCityState ==
    /\ (DonorsParsed /\ ThreeValueLines) =>
          \A k \in 1..Len(donors) : donors[k].donor_city_state = ThirdValueLine
    /\ (pc = "tables_parsed" /\ ThreeValueLines) =>
          \A k \in 1..Len(page_expenses) :
              page_expenses[k].payment_status # <<"C","a","t","e","g","o","r","y">> =>
                  page_expenses[k].payee_city_state = ThirdValueLine
\* C23, the expense parsers on their own
C23_PayeeCityState ==
    (pc = "tables_parsed" /\ ThreeValueLines) =>
        \A k \in 1..Len(page_expenses) :
            page_expenses[k].payment_status # <<"C","a","t","e","g","o","r","y">> =>
                page_expenses[k].payee_city_state = ThirdValueLine

\* the metadata of the file cannot be read: it does not open, or page 1 gives no text
MetadataUnreadable(f) == ~f.opens \/ f.pages = <<>> \/ f.pages[1].text = None
\* the files of the folder whose metadata can be read and names a report period
Grouped == {i \in 1..Len(pdf_files) :
              ~MetadataUnreadable(pdf_files[i]) /\ HasKey(pdf_files[i])}

\* C14: when filter_latest_reports returns, a file whose metadata cannot be
\* read is not in the result and is in the list of unreadable files, and of
\* the files of each report period among the others exactly one is in the
\* result.
C14_UnreadableSetAside ==
    (pc = "filter_done" /\ batch_mode # "reports") =>
      /\ \A i \in 1..Len(pdf_files) : MetadataUnreadable(pdf_files[i]) =>
            /\ ~InSeq(pdf_files[i].name, latest_reports)
            /\ InSeq(pdf_files[i].name, corrupted_files)
      /\ \A i \in Grouped :
            Cardinality({j \in Grouped : /\ KeyOf(pdf_files[j]) = KeyOf(pdf_files[i])
                                         /\ InSeq(pdf_files[j].name, latest_reports)}) = 1
C14_Witness ==
    /\ pc = "filter_done" /\ batch_mode # "reports"
    /\ Len(pdf_files) = 2
    /\ pdf_files[1].opens /\ pdf_files[1].pages[1].text = None
    /\ ~MetadataUnreadable(pdf_files[2])
    /\ corrupted_files = <<pdf_files[1].name>>
    /\ latest_reports = <<pdf_files[2].name>>

\* the key the deduplicator would give a donor record
DonorKey(r) == <<r.donor_name, r.amount, r.date_received, r.contribution_type>>

\* C17 as stated: the donor records extract_donors_from_pdf returns for one
\* PDF never hold two records with the same donor_name, amount,
\* date_received and contribution_type.
C17_DonorsDeduplicated ==
    (batch_mode = "donors" /\ pc = "pdf_return") =>
      \A i, j \in 1..Len(pdf_records) :
        DonorKey(pdf_records[i]) = DonorKey(pdf_records[j]) => i = j

\* ------------------------------------------------ SpecPage: one page through the page loops

\* The headings a page text is put together from: those is_expense_page looks
\* for, and the words is_contributions_page looks for.
ExpenseHeadings ==
    <<<<"I","T","E","M","I","Z","E","D"," ","E","X","P","E","N","D","I","T","U","R","E","S">>, <<"A","L","L"," ","O","V","E","R"," ","$","1","0","0">>, <<"I","T","E","M","I","Z","E","D"," ","E","X","P","E","N","D","I","T","U","R","E","S"," ","O","V","E","R"," ","$","1","0","0">>,
      <<"C","O","N","T","R","I","B","U","T","I","O","N","S"," ","M","A","D","E">>, <<"C","A","N","D","I","D","A","T","E"," ","O","R"," ","C","O","M","M","I","T","T","E","E">>,
      <<"E","X","P","E","N","D","I","T","U","R","E","S"," ","O","F"," ","$","1","0","0"," ","O","R"," ","L","E","S","S"," ","B","Y"," ","C","A","T","E","G","O","R","Y">>,
      <<"E","X","P","E","N","D","I","T","U","R","E","S"," ","A","N","D"," ","C","O","N","T","R","I","B","U","T","I","O","N","S"," ","M","A","D","E">>, <<"C","A","T","E","G","O","R","Y"," ","O","F"," ","E","X","P","E","N","D","I","T","U","R","E">>>>
DonorHeadings == <<<<"C","O","N","T","R","I","B","U","T","I","O","N","S">>, <<"R","E","C","E","I","V","E","D">>, <<"I","T","E","M","I","Z","E","D">>, <<"S","U","P","P","L","E","M","E","N","T","A","L">>>>
HeadingTexts(headings) ==
    { Join(SelectIdx(headings, keep), <<"\n">>) : keep \in SUBSET (1..Len(headings)) }
\* every choice of headings, as printed and in lower case; a page without text
PageTexts ==
    LET upper == HeadingTexts(ExpenseHeadings) \cup HeadingTexts(DonorHeadings)
    IN  upper \cup {Lower(t) : t \in upper} \cup {None}
\* the tables of the page: one that holds a donor row, one that holds expense rows
PageTables == {DonorPage.tables[1], DetailedPage.tables[1], CategoryPage.tables[1]}

PageInit ==
    /\ ToolIdle /\ AmountIdle /\ DedupIdle /\ FilterIdle /\ BatchIdle
    /\ pc = "page"
    /\ page_text \in PageTexts
    /\ page_table \in PageTables
    /\ extracted_data = NoRecord
    /\ MetaIdle
    /\ donors = <<>>
    /\ page_expenses = <<>>
    /\ ClassIdle

\* the body of the page loop of extract_donors_from_pdf; text.upper() raises
\* on a page without text
DonorPageStep ==
    /\ pc = "page"
    /\ IF page_text = None
       THEN pc' = "page_raised" /\ UNCHANGED <<is_contributions, donors>>
       ELSE /\ is_contributions' = is_contributions_page(page_text)
            /\ donors' = IF is_contributions_page(page_text)
                         THEN DonorsOfTables(<<page_table>>, SourceReport, TableMetadata)
                         ELSE <<>>
            /\ pc' = "donor_page_done"
    /\ UNCHANGED <<page_table, page_expenses, is_expense, page_types, amountVars, toolVars, dedupVars,
                   filterVars, reportVars, batchVars>>

\* the body of the page loop of extract_expenses_from_pdf
ExpensePageStep ==
    /\ pc = "donor_page_done"
    /\ page_types' = is_expense_page(page_text)
    /\ is_expense' = ExpensePageFlag(is_expense_page(page_text))
    /\ page_expenses' = IF ExpensePageFlag(is_expense_page(page_text))
                        THEN ExpensesOfTypes(is_expense_page(page_text), <<page_table>>,
                                             SourceReport, TableMetadata)
                        ELSE <<>>
    /\ pc' = "page_done"
    /\ UNCHANGED <<page_table, donors, is_contributions, amountVars, toolVars, dedupVars, filterVars,
                   reportVars, batchVars>>

PageNext == DonorPageStep \/ ExpensePageStep
SpecPage == PageInit /\ [][PageNext]_vars

\* the page text holds the words, whatever the case of its letters
PageHas(words) == Contains(Upper(page_text), words)
Listed(type) == \E k \in 1..Len(page_types) : page_types[k] = type
TimesListed(type) == Cardinality({k \in 1..Len(page_types) : page_types[k] = type})
DetailedHeading ==
    \/ PageHas(<<"I","T","E","M","I","Z","E","D"," ","E","X","P","E","N","D","I","T","U","R","E","S">>) /\ PageHas(<<"A","L","L"," ","O","V","E","R"," ","$","1","0","0">>)
    \/ PageHas(<<"I","T","E","M","I","Z","E","D"," ","E","X","P","E","N","D","I","T","U","R","E","S"," ","O","V","E","R"," ","$","1","0","0">>)

\* C12: is_expense_page never lists both 'detailed' and 'contributions';
\* 'contributions' is listed only when CONTRIBUTIONS MADE and CANDIDATE OR
\* COMMITTEE are on the page and the detailed heading, under which alone
\* 'detailed' is listed, is not; 'category' is listed at most once; the flag
\* is true exactly when the list is not empty.
C12_PageTypesExclusive ==
    pc = "page_done" =>
        /\ ~(Listed("detailed") /\ Listed("contributions"))
        /\ Listed("contributions") =>
              /\ PageHas(<<"C","O","N","T","R","I","B","U","T","I","O","N","S"," ","M","A","D","E">>) /\ PageHas(<<"C","A","N","D","I","D","A","T","E"," ","O","R"," ","C","O","M","M","I","T","T","E","E">>)
              /\ ~DetailedHeading
        /\ Listed("detailed") <=> DetailedHeading
        /\ TimesListed("category") <= 1
        /\ is_expense <=> page_types # <<>>

\* a page with the detailed heading, the contributions heading and both
\* category triggers: contributions is left out, category listed once
C12_Witness ==
    /\ pc = "page_done"
    /\ DetailedHeading
    /\ PageHas(<<"C","O","N","T","R","I","B","U","T","I","O","N","S"," ","M","A","D","E">>) /\ PageHas(<<"C","A","N","D","I","D","A","T","E"," ","O","R"," ","C","O","M","M","I","T","T","E","E">>)
    /\ PageHas(<<"E","X","P","E","N","D","I","T","U","R","E","S"," ","O","F"," ","$","1","0","0"," ","O","R"," ","L","E","S","S"," ","B","Y"," ","C","A","T","E","G","O","R","Y">>)
    /\ PageHas(<<"E","X","P","E","N","D","I","T","U","R","E","S"," ","A","N","D"," ","C","O","N","T","R","I","B","U","T","I","O","N","S"," ","M","A","D","E">>) /\ PageHas(<<"C","A","T","E","G","O","R","Y"," ","O","F"," ","E","X","P","E","N","D","I","T","U","R","E">>)
    /\ page_types = <<"detailed", "category">>
    /\ is_expense

\* C13: is_contributions_page is true exactly when the page text, letter
\* case aside, holds CONTRIBUTIONS and RECEIVED and one of ITEMIZED and
\* SUPPLEMENTAL; a page for which it is false adds no donor record.
C13_ContributionsPage ==
    pc \in {"donor_page_done", "page_done"} =>
        /\ is_contributions <=>
              /\ PageHas(<<"C","O","N","T","R","I","B","U","T","I","O","N","S">>) /\ PageHas(<<"R","E","C","E","I","V","E","D">>)
              /\ PageHas(<<"I","T","E","M","I","Z","E","D">>) \/ PageHas(<<"S","U","P","P","L","E","M","E","N","T","A","L">>)
        /\ ~is_contributions => donors = <<>>

\* a page that holds the donor table under CONTRIBUTIONS and ITEMIZED
\* without RECEIVED: not taken for a contributions page, no donor read
C13_Witness ==
    /\ pc = "donor_page_done"
    /\ page_table = DonorPage.tables[1]
    /\ DonorsOfTables(<<page_table>>, SourceReport, TableMetadata) # <<>>
    /\ PageHas(<<"C","O","N","T","R","I","B","U","T","I","O","N","S">>) /\ PageHas(<<"I","T","E","M","I","Z","E","D">>) /\ ~PageHas(<<"R","E","C","E","I","V","E","D">>)
    /\ ~is_contributions
    /\ donors = <<>>

\* ------------------------------------------------ search configuration (config.py)

\* x or y
Or(x, y) == IF Truthy(x) THEN x ELSE y

\* Config.set_search(committee, candidate, mecid): the class attributes after the call
set_search(cls, committee, candidate, mecid) ==
    IF Truthy(mecid) /\ ~(Truthy(committee) \/ Truthy(candidate))
    THEN [SEARCH_TYPE |-> "mecid", COMMITTEE_MECID |-> mecid,
          COMMITTEE_NAME |-> None, CANDIDATE_NAME |-> None]
    ELSE IF Truthy(candidate)
    THEN [SEARCH_TYPE |-> "candidate", CANDIDATE_NAME |-> candidate,
          COMMITTEE_NAME |-> None,
          COMMITTEE_MECID |-> IF Truthy(mecid) THEN mecid ELSE None]
    ELSE [SEARCH_TYPE |-> "committee",
          COMMITTEE_NAME |-> Or(committee, cls.COMMITTEE_NAME),
          CANDIDATE_NAME |-> None,
          COMMITTEE_MECID |-> IF Truthy(mecid) THEN mecid ELSE None]

\* Config.get_search_value()
get_search_value(cls) ==
    IF cls.SEARCH_TYPE = "candidate" THEN cls.CANDIDATE_NAME
    ELSE IF cls.SEARCH_TYPE = "mecid" THEN cls.COMMITTEE_MECID
    ELSE cls.COMMITTEE_NAME

IndexError == <<"IndexError">>
TypeError == <<"TypeError">>
skip_words == {<<"f","o","r">>, <<"t","o">>, <<"t","h","e">>, <<"o","f">>, <<"a","n","d">>, <<"a">>, <<"a","n">>, <<"e","l","e","c","t">>}
IsAlnum(c) == IsAlpha(c) \/ IsDigit(c)
\* the upper-case first letters of the words that are no skip words
Initials(words) ==
    LET kept == SelectIdx(words, {i \in 1..Len(words) : Lower(words[i]) \notin skip_words})
    IN  [i \in 1..Len(kept) |-> UpperChar(kept[i][1])]
\* re.sub(r'[^A-Za-z0-9]', '', word)[:10].upper()
FirstWordPrefix(word) ==
    LET kept == SelectIdx(word, {i \in 1..Len(word) : IsAlnum(word[i])})
    IN  Upper(SubSeq(kept, 1, Min({10, Len(kept)})))
\* Config.get_file_prefix(): the MECID, the initials of the name, or UNKNOWN
get_file_prefix(cls) ==
    IF cls.SEARCH_TYPE = "mecid" THEN cls.COMMITTEE_MECID
    ELSE LET name == IF cls.SEARCH_TYPE = "candidate" THEN cls.CANDIDATE_NAME
                     ELSE cls.COMMITTEE_NAME
             words == SplitWords(name)
             prefix == Initials(words)
         IN  IF ~Truthy(name) THEN <<"U","N","K","N","O","W","N">>
             ELSE IF Len(prefix) < 2
                  THEN (IF words = <<>> THEN IndexError ELSE FirstWordPrefix(words[1]))
                  ELSE SubSeq(prefix, 1, Min({10, Len(prefix)}))

DigitChars == <<"0", "1", "2", "3", "4", "5", "6", "7", "8", "9">>
\* str(n) of a natural number
RECURSIVE IntStr(_)
IntStr(n) == IF n < 10 THEN <<DigitChars[n + 1]>>
             ELSE IntStr(n \div 10) \o <<DigitChars[(n % 10) + 1]>>

\* Config.get_filename_pattern(year, report_id): f"{prefix}_{year}_Step8_{report_id}.pdf"
get_filename_pattern(cls, year, report_id) ==
    IF get_file_prefix(cls) = IndexError THEN IndexError
    ELSE Str(get_file_prefix(cls)) \o <<"_">> \o IntStr(year) \o <<"_","S","t","e","p","8","_">>
           \o report_id \o <<".","p","d","f">>

\* re.match(Config.get_filename_regex(), name): the groups (\d{4}) and (\d+) of
\* <escaped prefix>_(\d{4})_Step8_(\d+)\.pdf matched at the start of name, <<>> if
\* none; the IndexError of get_file_prefix escapes, and re.escape raises
\* TypeError on the prefix None
get_filename_regex(cls, name) ==
    LET prefix == get_file_prefix(cls)
        y == Len(prefix) + 2
        r == y + 4 + 7
        e == DigitRunEnd(name, r)
    IN  IF prefix = IndexError THEN IndexError
        ELSE IF prefix = None THEN TypeError
        ELSE IF /\ StartsWith(name, prefix \o <<"_">>)
                /\ \A i \in y..(y + 3) : IsDigit(At(name, i))
                /\ MatchAt(name, <<"_","S","t","e","p","8","_">>, y + 4)
                /\ e > r
                /\ MatchAt(name, <<".","p","d","f">>, e)
             THEN <<Slice(name, y, y + 4), Slice(name, r, e)>>
             ELSE <<>>

\* extract_filename_info(filename) of validate_reports.py, or None; an error
\* raised by get_filename_regex escapes
extract_filename_info(cls, name) ==
    LET match == get_filename_regex(cls, name)
    IN  IF match = <<>> THEN NoRecord
        ELSE IF Len(match) = 1 THEN match
        ELSE [filename_year |-> ToInt(match[1]), report_id |-> match[2], filename |-> name]

\* the Config of the validate_reports.py process started with --mecid: the class
\* defaults with COMMITTEE_MECID assigned (validate_reports.py:85)
ValidatorConfig(mecid) == [DefaultConfig EXCEPT !.COMMITTEE_MECID = mecid]

MaxSetSearch == 2
CommitteeArgs == {None, <<>>, <<"F","r","a","n","c","i","s"," ","H","o","w","e","l","l"," ","F","a","m","i","l","i","e","s">>, <<"C","i","t","i","z","e","n","s"," ","f","o","r"," ","S","m","i","t","h">>, <<"T","h","e"," ","F","u","n","d">>}
CandidateArgs == {None, <<"J","o","h","n"," ","S","m","i","t","h">>, <<"O","'","N","e","i","l">>}
MecidArgs == {None, <<>>, <<"C","2","1","1","6">>, <<"C","9","9","9","9">>}
ReportYears == {2023, 2024}
ReportIds == {<<"2","1","7","9","5","7">>, <<"2","1","8","0","0","1">>}

ConfigInit ==
    /\ AmountIdle /\ DedupIdle /\ FilterIdle /\ RestIdle /\ OrchIdle
    /\ pc = "config"
    /\ Config = DefaultConfig
    /\ set_search_calls = 0
    /\ filename = None
    /\ filename_info = NoRecord

\* a call of Config.set_search
SetSearch ==
    /\ pc = "config"
    /\ set_search_calls < MaxSetSearch
    /\ \E committee \in CommitteeArgs, candidate \in CandidateArgs, mecid \in MecidArgs :
          Config' = set_search(Config, committee, candidate, mecid)
    /\ set_search_calls' = set_search_calls + 1
    /\ UNCHANGED <<pc, filename, filename_info, orchVars, amountVars, dedupVars, filterVars, restVars>>

\* the downloader names a report of the MECID folder: download_single_report
NameReport ==
    /\ pc = "config"
    /\ Truthy(Config.COMMITTEE_MECID)
    /\ \E year \in ReportYears, report_id \in ReportIds :
          filename' = get_filename_pattern(Config, year, report_id)
    /\ pc' = "named"
    /\ UNCHANGED <<Config, set_search_calls, filename_info, orchVars, amountVars, dedupVars, filterVars, restVars>>

\* validate_reports.py --mecid <MECID> reads the name of the file
ValidateName ==
    /\ pc = "named"
    /\ filename_info' = extract_filename_info(ValidatorConfig(Config.COMMITTEE_MECID), filename)
    /\ pc' = "validated"
    /\ UNCHANGED <<Config, set_search_calls, filename, orchVars, amountVars, dedupVars, filterVars, restVars>>

ConfigNext == SetSearch \/ NameReport \/ ValidateName
SpecConfig == ConfigInit /\ [][ConfigNext]_vars

\* C27: every file the downloader names with get_filename_pattern under the
\* search configuration of the orchestrator (one set_search call at most) is
\* matched by extract_filename_info of the validator started with --mecid
\* only, which returns the year and the report id the name was built from.
C27_ValidatorRecognizesDownloads ==
    (pc = "validated" /\ set_search_calls <= 1) =>
       \A year \in ReportYears, report_id \in ReportIds :
          filename = get_filename_pattern(Config, year, report_id) =>
             /\ filename_info # NoRecord
             /\ filename_info.filename_year = year
             /\ filename_info.report_id = report_id

\* C27 for the one prefix the validator knows: a file named under a
\* configuration whose prefix is FHF is matched with its year and report id.
C27_DefaultPrefixRecognized ==
    (pc = "validated" /\ get_file_prefix(Config) = <<"F","H","F">>) =>
       \A year \in ReportYears, report_id \in ReportIds :
          filename = get_filename_pattern(Config, year, report_id) =>
             filename_info = [filename_year |-> year, report_id |-> report_id,
                              filename |-> filename]

\* C28: after any sequence of set_search calls the field SEARCH_TYPE
\* designates is set (not None, not empty), so get_search_value never
\* returns None.
C28_DesignatedFieldSet ==
    /\ Config.SEARCH_TYPE = "candidate" => Truthy(Config.CANDIDATE_NAME)
    /\ Config.SEARCH_TYPE = "mecid" => Truthy(Config.COMMITTEE_MECID)
    /\ Config.SEARCH_TYPE = "committee" => Truthy(Config.COMMITTEE_NAME)
    /\ get_search_value(Config) # None

\* C28 for the candidate and MECID search types, and for one call from the
\* class defaults: there the designated field is set.
C28_SetAfterOneCall ==
    /\ Config.SEARCH_TYPE = "candidate" => Truthy(Config.CANDIDATE_NAME)
    /\ Config.SEARCH_TYPE = "mecid" => Truthy(Config.COMMITTEE_MECID)
    /\ set_search_calls <= 1 => Truthy(get_search_value(Config))


\* ------------------------------------------------ orchestrator (orchestrator.py, download_reports.py)

MAX_RETRIES == 20

\* get_existing_files(downloads_dir): the names of the PDF files of the folder
get_existing_files(dir) == dir

\* the start of the digit run that ends right before position e
RECURSIVE DigitRunStart(_, _)
DigitRunStart(s, e) == IF IsDigit(At(s, e - 1)) THEN DigitRunStart(s, e - 1) ELSE e
\* re.search(r'(\d{5,})\.pdf$', name): group 1, or <<>> when there is no match
ReportIdOf(name) ==
    LET e == Len(name) - 3
        b == DigitRunStart(name, e)
    IN  IF e >= 1 /\ MatchAt(name, <<".","p","d","f">>, e) /\ e - b >= 5
        THEN Slice(name, b, e) ELSE <<>>
EndsWithReportId(name) == ReportIdOf(name) # <<>>
\* get_existing_report_ids(downloads_dir): the ids the names of the folder end with
get_existing_report_ids(dir) == {ReportIdOf(name) : name \in {n \in dir : EndsWithReportId(n)}}

\* the Config of the download_reports.py process: set_search on the arguments
\* run_downloader passes (--mecid-only, --candidate or --committee, and --mecid)
DownloaderConfig(cls) ==
    IF cls.SEARCH_TYPE = "mecid"
    THEN set_search(DefaultConfig, None, None, cls.COMMITTEE_MECID)
    ELSE IF cls.SEARCH_TYPE = "candidate"
    THEN set_search(DefaultConfig, None, cls.CANDIDATE_NAME, cls.COMMITTEE_MECID)
    ELSE set_search(DefaultConfig, cls.COMMITTEE_NAME, None, cls.COMMITTEE_MECID)

\* process_single_year: the listed ids not in existing_ids are attempted; the
\* downloads that succeed (the ones not in fails) are saved under the name of
\* the year and added to existing_ids
process_single_year(cls, site, year, state, fails) ==
    LET new_report_links == site[year] \ state.existing_ids
        downloaded == {id \in new_report_links : <<year, id>> \notin fails}
    IN  [dir |-> state.dir \cup {get_filename_pattern(cls, year, id) : id \in downloaded},
         existing_ids |-> state.existing_ids \cup downloaded,
         failed |-> state.failed \/ downloaded # new_report_links]

\* "for year in available_years", the years sorted in descending order
RECURSIVE ProcessYears(_, _, _, _, _)
ProcessYears(cls, site, years, state, fails) ==
    IF years = {} THEN state
    ELSE ProcessYears(cls, site, years \ {Max(years)},
                      process_single_year(cls, site, Max(years), state, fails), fails)

\* the years the site lists reports under
AvailableYears(site) == {year \in DOMAIN site : site[year] # {}}

\* the search of the site ended on the committee page (exact match)
DirectPage == [kind |-> "direct", links |-> <<>>]
\* the search ended on the results page, which shows these links in this order
ResultsPage(links) == [kind |-> "results", links |-> links]
\* the browser or the site failed: an exception is raised
ErrorPage == [kind |-> "error", links |-> <<>>]
\* link.text.strip() of the links of the results table
LinkTexts(page) == [i \in 1..Len(page.links) |-> Strip(page.links[i])]
\* re.compile(r'^[A-Z]\d{5,7}$').match(text)
mecid_pattern(text) ==
    /\ Len(text) >= 6 /\ Len(text) <= 8
    /\ \E k \in 1..26 : text[1] = UpperLetters[k]
    /\ \A i \in 2..Len(text) : IsDigit(text[i])
\* the first link the pattern matches, None when there is none
FirstMecidLink(texts) ==
    IF \E i \in 1..Len(texts) : mecid_pattern(texts[i])
    THEN texts[Min({i \in 1..Len(texts) : mecid_pattern(texts[i])})]
    ELSE None
\* some link of the results table is the MECID searched for
HasExactLink(cls, texts) == \E i \in 1..Len(texts) : texts[i] = cls.COMMITTEE_MECID

\* the downloader gets from the search to the committee page: at once on a
\* direct match; on the results page by the link of the MECID, and in a name
\* search by the first link when the MECID is not shown
DownloaderReachesReports(cls, page) ==
    /\ Truthy(cls.COMMITTEE_MECID)
    /\ get_search_value(cls) # None
    /\ \/ page.kind = "direct"
       \/ /\ page.kind = "results"
          /\ IF cls.SEARCH_TYPE = "mecid" THEN HasExactLink(cls, LinkTexts(page))
             ELSE page.links # <<>>
\* run_step_8_multi_year in the downloader process: the folder afterwards and
\* whether a download failed; nothing is downloaded when the committee page
\* is not reached
run_step_8_multi_year(cls, page, site, dir, fails) ==
    IF DownloaderReachesReports(DownloaderConfig(cls), page)
    THEN ProcessYears(DownloaderConfig(cls), site, AvailableYears(site),
                      [dir |-> dir, existing_ids |-> get_existing_report_ids(dir),
                       failed |-> FALSE],
                      fails)
    ELSE [dir |-> dir, existing_ids |-> get_existing_report_ids(dir), failed |-> FALSE]

\* the file names the listing gives: one per year and report id listed under it
ListedNames(cls, site) ==
    UNION {{get_filename_pattern(cls, year, report_id) : report_id \in site[year]} :
             year \in DOMAIN site}
\* get_expected_reports_from_website: the names returned and Config afterwards.
\* On the results page a MECID search takes the link equal to the MECID and a
\* name search the first link of the MECID pattern, saved to Config when none
\* is configured; with no such link, and on any exception, set() is returned.
get_expected_reports_from_website(cls, page, site) ==
    LET texts == LinkTexts(page)
        discovered == FirstMecidLink(texts)
        on_results == page.kind = "results" /\ get_search_value(cls) # None
        saved == IF /\ on_results /\ cls.SEARCH_TYPE # "mecid" /\ discovered # None
                    /\ ~Truthy(cls.COMMITTEE_MECID)
                 THEN [cls EXCEPT !.COMMITTEE_MECID = discovered] ELSE cls
        reached == \/ page.kind = "direct" /\ get_search_value(cls) # None
                   \/ /\ on_results
                      /\ IF cls.SEARCH_TYPE = "mecid" THEN HasExactLink(cls, texts)
                         ELSE discovered # None
        names == ListedNames(saved, site)
    IN  [Config |-> saved,
         expected_files |-> IF reached /\ IndexError \notin names THEN names ELSE {}]

\* the run goes on unless the operator answers n
ProceedsUnlessNo(response) == Lower(response) # <<"n">>
\* response.lower() != 'y' is false: the operator lets the run go on
Proceeds(response) == Lower(response) = <<"y">>

Responses == {<<"y">>, <<"Y">>, <<"n">>, <<>>}
SiteListings == [ReportYears -> SUBSET ReportIds]
\* the pages a search can lead to: the committee page, an error, or a results
\* page with no link, with the link C2116 (four digits), or with the name of
\* the committee and the links C211552 and C2116
SitePages ==
    { DirectPage, ErrorPage,
      ResultsPage(<<>>),
      ResultsPage(<<<<"C","2","1","1","6">>>>),
      ResultsPage(<<<<"C","i","t","i","z","e","n","s"," ","f","o","r"," ","S","m","i","t","h">>, <<" ","C","2","1","1","5","5","2">>, <<"C","2","1","1","6">>>>) }
\* Config after main read the command line: no argument, --mecid-only,
\* --candidate, --committee with --mecid
OrchestratorConfigs ==
    { DefaultConfig,
      set_search(DefaultConfig, None, None, <<"C","2","1","1","6">>),
      set_search(DefaultConfig, None, <<"J","o","h","n"," ","S","m","i","t","h">>, None),
      set_search(DefaultConfig, <<"C","i","t","i","z","e","n","s"," ","f","o","r"," ","S","m","i","t","h">>, None, <<"C","2","1","1","6">>) }
\* what the MECID folder can hold when the orchestrator starts: nothing, or
\* one of the listed reports from an earlier run, with or without another PDF
InitialFolders(cls, site) ==
    LET listed == ListedNames(cls, site)
    IN  {{}} \cup {{name} : name \in listed} \cup {{name, <<"n","o","t","e","s",".","p","d","f">>} : name \in listed}

OrchInit ==
    /\ AmountIdle /\ DedupIdle /\ FilterIdle /\ RestIdle
    /\ pc = "orch_start"
    /\ Config \in OrchestratorConfigs
    /\ set_search_calls = 0 /\ filename = None /\ filename_info = NoRecord
    /\ site_reports \in SiteListings
    /\ site_page \in SitePages
    /\ downloads_dir \in InitialFolders(Config, site_reports)
    /\ expected_files = {}
    /\ attempt = 0
    /\ missing_files = {}
    /\ returncode = NoStatus
    /\ prompts = <<>>
    /\ downloader_runs = 0
    /\ download_failed = FALSE
    /\ extractors_run = <<>>
    /\ exit_status = NoStatus


\* the part of the state the orchestrator does not touch
OrchRest == <<set_search_calls, filename, filename_info, site_reports, site_page,
              amountVars, dedupVars, filterVars, restVars>>

\* STEP 1: the site is searched (a MECID found on the results page is saved
\* when none is configured) and the expected file names are built; main
\* exits with 1 when there is no expected file or no MECID
OrchDiscover ==
    /\ pc = "orch_start"
    /\ LET found == get_expected_reports_from_website(Config, site_page, site_reports)
           expected == found.expected_files
       IN  /\ Config' = found.Config
           /\ expected_files' = expected
           /\ IF expected = {} \/ ~Truthy(found.Config.COMMITTEE_MECID)
              THEN pc' = "orch_exit" /\ exit_status' = 1 /\ attempt' = attempt
              ELSE pc' = "orch_loop" /\ exit_status' = exit_status /\ attempt' = 1
    /\ UNCHANGED <<downloads_dir, missing_files, returncode, prompts, downloader_runs,
                   download_failed, extractors_run, OrchRest>>

\* STEP 2, one attempt of the download loop: break when nothing is missing,
\* else run the downloader; after the last attempt the else clause follows
OrchAttempt ==
    /\ pc = "orch_loop"
    /\ attempt <= MAX_RETRIES
    /\ LET missing == expected_files \ get_existing_files(downloads_dir)
       IN  /\ missing_files' = missing
           /\ IF missing = {}
              THEN /\ pc' = "orch_validate"
                   /\ UNCHANGED <<attempt, downloads_dir, downloader_runs, download_failed>>
              ELSE /\ \E fails \in SUBSET (ReportYears \X ReportIds) :
                        LET run == run_step_8_multi_year(Config, site_page, site_reports, downloads_dir, fails)
                        IN  /\ downloads_dir' = run.dir
                            /\ download_failed' = (download_failed \/ run.failed)
                   /\ downloader_runs' = downloader_runs + 1
                   /\ IF attempt < MAX_RETRIES
                      THEN attempt' = attempt + 1 /\ pc' = pc
                      ELSE attempt' = attempt /\ pc' = "orch_max_retries"
    /\ UNCHANGED <<Config, expected_files, returncode, prompts, extractors_run, exit_status,
                   OrchRest>>

\* the else clause of the loop: the missing files are listed and the operator
\* is asked whether to proceed
OrchMaxRetries ==
    /\ pc = "orch_max_retries"
    /\ missing_files' = expected_files \ get_existing_files(downloads_dir)
    /\ \E response \in Responses :
          /\ prompts' = Append(prompts, <<"proceed", response>>)
          /\ IF Proceeds(response)
             THEN pc' = "orch_validate" /\ exit_status' = exit_status
             ELSE pc' = "orch_exit" /\ exit_status' = 1
    /\ UNCHANGED <<Config, expected_files, downloads_dir, attempt, returncode, downloader_runs,
                   download_failed, extractors_run, OrchRest>>

\* STEP 3: validate_reports.py runs; on a status other than 0, or when it
\* could not be run (no status), the operator is asked whether to continue
OrchValidate ==
    /\ pc = "orch_validate"
    /\ \E status \in {0, 1, NoStatus} :
          /\ returncode' = status
          /\ IF status = 0
             THEN pc' = "orch_extract" /\ exit_status' = exit_status /\ prompts' = prompts
             ELSE \E response \in Responses :
                     /\ prompts' = Append(prompts, <<"continue", response>>)
                     /\ IF Proceeds(response)
                        THEN pc' = "orch_extract" /\ exit_status' = exit_status
                        ELSE pc' = "orch_exit" /\ exit_status' = 1
    /\ UNCHANGED <<Config, expected_files, downloads_dir, attempt, missing_files,
                   downloader_runs, download_failed, extractors_run, OrchRest>>

\* STEP 4: run_extractors starts the two extractors for the MECID, then main returns
OrchExtract ==
    /\ pc = "orch_extract"
    /\ extractors_run' = IF Truthy(Config.COMMITTEE_MECID)
                         THEN <<"expense_extractor.py", "donor_extractor.py">> ELSE <<>>
    /\ exit_status' = 0
    /\ pc' = "orch_done"
    /\ UNCHANGED <<Config, expected_files, downloads_dir, attempt, missing_files, returncode,
                   prompts, downloader_runs, download_failed, OrchRest>>

OrchNext == OrchDiscover \/ OrchAttempt \/ OrchMaxRetries \/ OrchValidate \/ OrchExtract
SpecOrchestrator == OrchInit /\ [][OrchNext]_vars


\* the operator answered y (or Y) to the question asked
AnsweredYes(question) ==
    \E i \in 1..Len(prompts) : prompts[i][1] = question /\ Lower(prompts[i][2]) = <<"y">>
Asked(question) == \E i \in 1..Len(prompts) : prompts[i][1] = question
\* an attempt of the loop found nothing missing (the loop ended by break)
AttemptSawNoneMissing == pc \notin {"orch_start", "orch_loop", "orch_max_retries"}
                         /\ expected_files # {} /\ ~Asked("proceed")
DownloadsSettled == AttemptSawNoneMissing \/ AnsweredYes("proceed")
ValidationSettled == returncode = 0 \/ AnsweredYes("continue")
OrchEnded == pc \in {"orch_done", "orch_exit"}

\* C29: the extractors run only after the download loop was settled (an
\* attempt saw no missing file, or the operator answered y after the 20th
\* attempt) and validation was settled (status 0, or the operator answered
\* y); every other run ends with exit status 1 and no extractor run; the
\* downloader runs at most 20 times, and only in an attempt that sees a
\* missing file.
C29_ExtractorsGated ==
    /\ [](/\ extractors_run # <<>> => (DownloadsSettled /\ ValidationSettled)
          /\ OrchEnded =>
               IF DownloadsSettled /\ ValidationSettled
               THEN extractors_run = <<"expense_extractor.py", "donor_extractor.py">>
               ELSE exit_status = 1 /\ extractors_run = <<>>
          /\ downloader_runs <= MAX_RETRIES)
    /\ [][downloader_runs' # downloader_runs =>
            /\ downloader_runs' = downloader_runs + 1
            /\ expected_files \ downloads_dir # {}
            /\ missing_files' # {}]_vars
\* 20 downloader runs, y to both questions, then the extractors
C29_Witness ==
    /\ pc = "orch_done"
    /\ downloader_runs = MAX_RETRIES
    /\ missing_files # {}
    /\ returncode = 1
    /\ prompts = <<<<"proceed", <<"y">>>>, <<"continue", <<"Y">>>>>>
    /\ extractors_run # <<>>

\* the same report id is listed under two years
ListedUnderTwoYears ==
    \E y1, y2 \in DOMAIN site_reports : y1 # y2 /\ site_reports[y1] \cap site_reports[y2] # {}

\* C30: when every download the downloader attempts succeeds, the download
\* loop ends by finding all reports downloaded, never by using up its 20
\* attempts, whatever the site lists (the same id under two years included).
C30_AllDownloadedWithinLimit ==
    pc = "orch_max_retries" => download_failed

\* C30 for listings in which no report id appears under two years: with no
\* failed download the loop finds all reports downloaded by its second attempt.
C30_DistinctIdsDownloaded ==
    (~ListedUnderTwoYears /\ ~download_failed /\ pc = "orch_loop" /\ attempt >= 2)
       => expected_files \ downloads_dir = {}


====
